---- MODULE Spec2Model ----
(***************************************************************************)
(* Model of the daily guessing game's server routes                       *)
(* (src/src/server/routes/game.ts).  The file holds two generations of    *)
(* the routes: the richer one (lines 1-403: client dateKey, completed     *)
(* flag, /giveup) and the legacy one (lines 405-815: UTC day only, no     *)
(* completed flag).  The variable `variant` says which one a behaviour    *)
(* runs.                                                                   *)
(*                                                                         *)
(* Every `await` of a handler is one step of the process running it, so   *)
(* that concurrent requests interleave exactly where the code can be      *)
(* suspended.  The key-value store is one function from keys to           *)
(* [v, exp]; the clock advances in steps of one UTC day, and a step   *)
(* of the clock removes the keys whose time to live has run out.          *)
(*                                                                         *)
(* Representation choices:                                                 *)
(*  - a date key "YYYY-MM-DD" is the number of its UTC day (utcDateKey is  *)
(*    injective on days, and the code only compares date keys for         *)
(*    equality);                                                           *)
(*  - a number stored as String(n) and read back with Number() is the     *)
(*    integer n;                                                           *)
(*  - texts that the code inspects character by character (guesses, raw   *)
(*    modes, community names) are sequences of one-character strings.     *)
(***************************************************************************)
EXTENDS Integers, Sequences, FiniteSets, TLC

VARIABLES variant, now, store, pr, nReq, credited, nScored, nCorrect, doneAns, expiredAny,
          src, bld, built, dq, pq, twin

vars == <<variant, now, store, pr, nReq, credited, nScored, nCorrect, doneAns, expiredAny,
          src, bld, built, dq, pq, twin>>

\* the state of the uncached builds: the content source's snapshot, the build in
\* progress, and the outcomes of the finished builds
buildVars == <<src, bld, built>>

\* the history variables of the routes
Ghosts == <<credited, nScored, nCorrect, doneAns, expiredAny>>

(***************************************************************************)
(* Bounds of the model.                                                    *)
(***************************************************************************)
\* posts in the listing the selection reads
MaxListing == 2
\* comments under a post
MaxComments == 2
\* uncached builds in one behaviour
MaxBuilds == 2
\* last day the clock reaches in the sequential specification
MaxDay == 2
\* requests served in one behaviour of the sequential specification
MaxReqs == 2

Procs == {"p1", "p2"}

(***************************************************************************)
(* Characters and texts.                                                   *)
(***************************************************************************)
\* the printable ASCII characters, from code 32 (space) to code 126 (the grave
\* accent, code 96, is written "<96>")
Ascii ==
    <<" ", "!", "\"", "#", "$", "%", "&", "'", "(", ")", "*", "+", ",", "-", ".", "/",
      "0", "1", "2", "3", "4", "5", "6", "7", "8", "9", ":", ";", "<", "=", ">", "?",
      "@", "A", "B", "C", "D", "E", "F", "G", "H", "I", "J", "K", "L", "M", "N", "O",
      "P", "Q", "R", "S", "T", "U", "V", "W", "X", "Y", "Z", "[", "\\", "]", "^", "_",
      "<96>", "a", "b", "c", "d", "e", "f", "g", "h", "i", "j", "k", "l", "m", "n", "o",
      "p", "q", "r", "s", "t", "u", "v", "w", "x", "y", "z", "{", "|", "}", "~">>

\* the code of each character of the table
CodeOf == [c \in {Ascii[i] : i \in 1..Len(Ascii)} |->
              31 + (CHOOSE i \in 1..Len(Ascii) : Ascii[i] = c)]

\* str.charCodeAt(i)
charCodeAt(c) == CodeOf[c]

\* String.prototype.toLowerCase on one ASCII character: "A".."Z" (codes 65..90) become
\* the characters 32 codes higher
LowerChar(c) ==
    IF CodeOf[c] >= 65 /\ CodeOf[c] <= 90 THEN Ascii[CodeOf[c] - 31 + 32] ELSE c

ToLower(s) == [i \in 1..Len(s) |-> LowerChar(s[i])]

\* the class [A-Za-z0-9_]: the digits (codes 48..57), the capitals (65..90), the
\* underscore (95) and the small letters (97..122)
WordChars ==
    {Ascii[i - 31] : i \in (48..57) \cup (65..90) \cup {95} \cup (97..122)}

IsSpace(c) == c = " "

RECURSIVE TrimLeft(_)
TrimLeft(s) == IF s # <<>> /\ IsSpace(Head(s)) THEN TrimLeft(Tail(s)) ELSE s

RECURSIVE TrimRight(_)
TrimRight(s) ==
    IF s # <<>> /\ IsSpace(s[Len(s)]) THEN TrimRight(SubSeq(s, 1, Len(s) - 1)) ELSE s

Trim(s) == TrimRight(TrimLeft(s))

\* the prefix pattern without its i flag: only a small r is removed
StripPrefix_CaseSensitive(s) ==
    IF Len(s) >= 3 /\ s[1] = "/" /\ s[2] = "r" /\ s[3] = "/"
    THEN SubSeq(s, 4, Len(s))
    ELSE IF Len(s) >= 2 /\ s[1] = "r" /\ s[2] = "/"
         THEN SubSeq(s, 3, Len(s))
         ELSE s

\* s.replace(/^\/?r\//i, "")
StripPrefix(s) ==
    IF Len(s) >= 3 /\ s[1] = "/" /\ LowerChar(s[2]) = "r" /\ s[3] = "/"
    THEN SubSeq(s, 4, Len(s))
    ELSE IF Len(s) >= 2 /\ LowerChar(s[1]) = "r" /\ s[2] = "/"
         THEN SubSeq(s, 3, Len(s))
         ELSE s

IsWordChar(c) == c \in WordChars

normalizeGuess(input) == SelectSeq(StripPrefix(Trim(input)), IsWordChar)

\* a request field that is missing from the body or the query
Absent == <<"?absent">>

normalizeMode(raw) ==
    LET s == IF raw = Absent THEN <<>> ELSE ToLower(raw)
    IN  IF s = <<"e", "a", "s", "y">> THEN "easy"
        ELSE IF s = <<"h", "a", "r", "d">> THEN "hard"
        ELSE IF s = <<"m", "e", "d", "i", "u", "m">> THEN "medium"
        ELSE "medium"

(***************************************************************************)
(* Days and date keys.                                                     *)
(***************************************************************************)
\* utcDateKey(new Date(t)): the clock counts whole UTC days, so the day of time t is t
utcDateKey(t) == t

\* utcDateKey(new Date(Date.now() + daysOffset * 24h))
utcDateKeyOffset(t, daysOffset) == utcDateKey(t + daysOffset)

\* raw client date keys: [wf |-> matches /^\d{4}-\d{2}-\d{2}$/, day |-> the day it names]
normalizeClientDateKey(raw, t) == IF raw.wf THEN raw.day ELSE utcDateKey(t)

resolveDateKey(raw, t) ==
    LET dk == normalizeClientDateKey(raw, t)
        allowed == {utcDateKeyOffset(t, -1), utcDateKeyOffset(t, 0), utcDateKeyOffset(t, 1)}
    IN  IF dk \notin allowed THEN utcDateKey(t) ELSE dk

(***************************************************************************)
(* The key-value store.                                                    *)
(***************************************************************************)
\* 60 * 60 * 48 seconds, in days
TTL == 2

\* the score key without the mode: one score per user
kScore_NoMode(u, m) == <<"score", u>>

kScore(u, m) == <<"score", u, m>>
kStreak(u, m) == <<"streak", u, m>>
kLastDate(u, m) == <<"lastDate", u, m>>
kPlayed(u, m, d) == <<"played", u, m, d>>
kCommit(u, m, d) == <<"commit", u, m, d>>
kCompleted(u, m, d) == <<"completed", u, m, d>>
cacheKey(d, m) == <<"puzzle", d, m>>

\* a store whose reads always miss
Has_Never(st, k) == FALSE

Has(st, k) == k \in DOMAIN st

\* redis.set: writes the value and drops any time to live the key had
\* (exp is the empty set, or holds the time at which the key goes away)
RedisSet(st, k, v) ==
    [x \in DOMAIN st \cup {k} |-> IF x = k THEN [v |-> v, exp |-> {}] ELSE st[x]]

\* redis.expire(key, 60 * 60 * 48) at time t
RedisExpire(st, k, t) == IF Has(st, k) THEN [st EXCEPT ![k].exp = {t + TTL}] ELSE st

\* the store once the clock shows t: keys whose time to live has run out are gone
Sweep(st, t) ==
    LET live == {k \in DOMAIN st : \A e \in st[k].exp : e > t}
    IN  [k \in live |-> st[k]]

\* (await redis.get(key)) === "1"
IsOne(st, k) == Has(st, k) /\ st[k].v = "1"

\* Number((await redis.get(key)) ?? 0)
NumberAt(st, k) == IF Has(st, k) THEN st[k].v ELSE 0

\* (await redis.get(key)) ?? "" for a date key: no day, or the day stored
DayAt(st, k) == IF Has(st, k) THEN {st[k].v} ELSE {}

readCommitted(st, u, m, d) == IsOne(st, kCommit(u, m, d))
\* readCompleted that always answers yes
readCompleted_Always(st, u, m, d) == TRUE

readCompleted(st, u, m, d) == IsOne(st, kCompleted(u, m, d))

\* commitMode writing the played key
commitModeSet_PlayedKey(st, u, m, d) == RedisSet(st, kPlayed(u, m, d), "1")

commitModeSet(st, u, m, d) == RedisSet(st, kCommit(u, m, d), "1")
commitModeExpire(st, u, m, d, t) == RedisExpire(st, kCommit(u, m, d), t)

\* setCompleted writing the played key
setCompletedSet_PlayedKey(st, u, m, d) == RedisSet(st, kPlayed(u, m, d), "1")

setCompletedSet(st, u, m, d) == RedisSet(st, kCompleted(u, m, d), "1")
\* setCompleted with a time to live of zero: the key is gone at once
setCompletedExpire_Zero(st, u, m, d, t) ==
    [k \in DOMAIN st \ {kCompleted(u, m, d)} |-> st[k]]

\* setCompleted with a time to live of one day instead of 48 hours
setCompletedExpire_OneDay(st, u, m, d, t) ==
    IF Has(st, kCompleted(u, m, d)) THEN [st EXCEPT ![kCompleted(u, m, d)].exp = {t + 1}]
    ELSE st

setCompletedExpire(st, u, m, d, t) == RedisExpire(st, kCompleted(u, m, d), t)

(***************************************************************************)
(* Pure decisions of the /guess handler.                                   *)
(***************************************************************************)
\* body.stageUsed ?? 3
stageOf(rawStage) == IF rawStage = 0 THEN 3 ELSE rawStage

\* guess.toLowerCase() === answer.toLowerCase()
isCorrect(text, answer) == ToLower(normalizeGuess(text)) = ToLower(answer)

\* the scoring table without its middle branch
pointsFor_NoStage2(stage) == IF stage = 1 THEN 100 ELSE 30

\* stageUsed === 1 ? 100 : stageUsed === 2 ? 60 : 30
pointsFor(stage) == IF stage = 1 THEN 100 ELSE IF stage = 2 THEN 60 ELSE 30

\* every guess finishes the mode
finishesNow_AnyGuess(correct, stage) == TRUE

\* only a win finishes the mode
finishesNow_WinOnly(correct, stage) == correct

\* correct || (!correct && stageUsed === 3)
finishesNow(correct, stage) == correct \/ (~correct /\ stage = 3)

\* the award guard without its test of correct
awardsNow_AnyGuess(alreadyCompleted, correct, alreadyAwarded) ==
    ~alreadyCompleted /\ ~alreadyAwarded

\* the award guard without its once-a-day check
awardsNow_NoPlayedCheck(alreadyCompleted, correct, alreadyAwarded) ==
    ~alreadyCompleted /\ correct

\* the guard of the award branch: !alreadyCompleted, correct && !alreadyAwarded
awardsNow(alreadyCompleted, correct, alreadyAwarded) ==
    ~alreadyCompleted /\ correct /\ ~alreadyAwarded

\* lastDate === yesterday ? prevStreak + 1 : 1
newStreak(lastDate, yesterday, prevStreak) ==
    IF lastDate = {yesterday} THEN prevStreak + 1 ELSE 1

(***************************************************************************)
(* 32-bit words.  A word is <<hi, lo>>, its two 16-bit halves; the bitwise *)
(* operators of the source work on these bit patterns.                     *)
(***************************************************************************)
\* a ^ b on the n low bits of two naturals
RECURSIVE XorBits(_, _, _)
XorBits(a, b, n) ==
    IF n = 0 THEN 0
    ELSE ((a + b) % 2) + 2 * XorBits(a \div 2, b \div 2, n - 1)

\* a ^ b for all pairs of bytes
Xor8 == [a \in 0..255 |-> [b \in 0..255 |-> XorBits(a, b, 8)]]

\* a ^ b on 16-bit halves
Xor16(a, b) == 256 * Xor8[a \div 256][b \div 256] + Xor8[a % 256][b % 256]

\* x ^ y on words
XorWord(x, y) == <<Xor16(x[1], y[1]), Xor16(x[2], y[2])>>

\* x << n on a word, 0 < n < 16 (pow == 2^n, rest == 2^(16 - n))
ShlWord(x, pow, rest) ==
    <<(x[1] % rest) * pow + (x[2] \div rest), (x[2] % rest) * pow>>

\* x >> 17 on a word: the sign bit fills the upper bits
Sar17(x) ==
    IF x[1] >= 32768 THEN <<65535, 32768 + (x[1] \div 2)>> ELSE <<0, x[1] \div 2>>

\* Math.imul(h, 16777619); 16777619 = 256 * 65536 + 403
imulPrime(h) ==
    LET p == h[2] * 403
    IN  <<(h[1] * 403 + h[2] * 256 + (p \div 65536)) % 65536, p % 65536>>

\* String(n) for a word n read as an unsigned number
RECURSIVE DecimalOf(_)
DecimalOf(n) ==
    IF n = <<0, 0>> THEN <<>>
    ELSE LET t == (n[1] % 10) * 65536 + n[2]
         IN  Append(DecimalOf(<<n[1] \div 10, t \div 10>>), Ascii[17 + (t % 10)])

numberText(n) == IF n = <<0, 0>> THEN <<"0">> ELSE DecimalOf(n)

\* the loop of seedFromString: h ^= charCode; h = Math.imul(h, 16777619)
RECURSIVE fnvFold(_, _)
fnvFold(h, str) ==
    IF str = <<>> \/ h \notin (0..65535) \X (0..65535) THEN h
    ELSE fnvFold(imulPrime(XorWord(h, <<0, charCodeAt(Head(str))>>)), Tail(str))

\* h = 2166136261 (0x811C9DC5); ...; return h >>> 0
seedFromString(str) == fnvFold(<<33052, 40389>>, str)

\* Math.abs(x) % len without Math.abs: the remainder keeps the sign of x
absMod_Signed(x, len) ==
    LET u == ((x[1] % len) * (65536 % len) + (x[2] % len)) % len
        top == ((65536 % len) * (65536 % len)) % len
    IN  IF x[1] >= 32768 THEN 0 - ((top + len - u) % len) ELSE u

\* Math.abs(x) % len for the signed reading of the word x
absMod(x, len) ==
    LET u == ((x[1] % len) * (65536 % len) + (x[2] % len)) % len
        top == ((65536 % len) * (65536 % len)) % len
    IN  IF x[1] >= 32768 THEN (top + len - u) % len ELSE u

\* seed || 123456789
seedOrDefault(seed) == IF seed = <<0, 0>> THEN <<1883, 52501>> ELSE seed

\* x ^= x << 13; x ^= x >> 17; x ^= x << 5
xorshift(x0) ==
    LET x1 == XorWord(x0, ShlWord(x0, 8192, 8))
        x2 == XorWord(x1, Sar17(x1))
    IN  XorWord(x2, ShlWord(x2, 32, 2048))

\* an index that also depends on how many builds the process has run
pickIndex_ByBuildCount(len, seed) ==
    (absMod(xorshift(seedOrDefault(seed)), len) + bld.n) % len

\* pickIndex: one xorshift round on seed || 123456789, then Math.abs(x) % len
pickIndex(len, seed) == absMod(xorshift(seedOrDefault(seed)), len)

(***************************************************************************)
(* The content source as the build sees it, and the selection functions.   *)
(* A listing is a sequence of posts; info maps a community name to the     *)
(* answer of getSubredditInfoByName (a record of metadata fields, or        *)
(* Throws when the lookup fails).                                          *)
(***************************************************************************)
Throws == [throws |-> TRUE]

\* post?.subredditName ?? post?.subreddit?.name ?? post?.subreddit ?? null (the posts of
\* the model carry subreddit as a name, never as an object)
getPostSubredditName(post) ==
    IF post.subredditName # Absent THEN post.subredditName ELSE post.subreddit

minSubsForMode(mode) ==
    IF mode = "easy" THEN 1000000 ELSE IF mode = "medium" THEN 10000 ELSE 0

CountFields ==
    <<"subscribers", "subscriberCount", "subscriber_count", "subscribersCount",
      "communitySize">>

\* the first candidate field that holds a number, else 0
getSubscriberCount(info) ==
    LET hits == SelectSeq(CountFields, LAMBDA f : f \in DOMAIN info /\ info[f] \in Nat)
    IN  IF hits = <<>> THEN 0 ELSE info[Head(hits)]

NsfwFields == {"nsfw", "isNsfw", "over18", "isOver18", "over_18"}

isNsfwSub(info) == \E f \in NsfwFields \cap DOMAIN info : info[f] = TRUE

\* the text of a GameMode
modeText(mode) ==
    IF mode = "easy" THEN <<"e", "a", "s", "y">>
    ELSE IF mode = "hard" THEN <<"h", "a", "r", "d">>
    ELSE <<"m", "e", "d", "i", "u", "m">>

\* `${dateKey}:${mode}:${tag}`
seedText(dateKey, mode, tag) == dateKey \o <<":">> \o modeText(mode) \o <<":">> \o tag

\* posts.map(getPostSubredditName).filter((s) => !!s)
candidatesOf(listing) ==
    LET names == [i \in 1..Len(listing) |-> getPostSubredditName(listing[i])]
    IN  SelectSeq(names, LAMBDA n : n # Absent /\ n # <<>>)

Min(a, b) == IF a < b THEN a ELSE b

\* the loop of the lenient pickSubredditForMode and its fallback
RECURSIVE lenientScan(_, _, _, _, _, _)
lenientScan(i, tried, cands, baseSeed, minSubs, info) ==
    IF i >= Min(45, Len(cands))
    THEN cands[1 + pickIndex(Len(cands), baseSeed)]
    ELSE LET seed == seedFromString(numberText(baseSeed) \o <<":">> \o numberText(<<0, i>>))
             sub == cands[1 + pickIndex(Len(cands), seed)]
         IN  IF sub \in tried
             THEN lenientScan(i + 1, tried, cands, baseSeed, minSubs, info)
             ELSE IF info[sub] = Throws \/ isNsfwSub(info[sub])
                  THEN lenientScan(i + 1, tried \cup {sub}, cands, baseSeed, minSubs, info)
                  ELSE IF getSubscriberCount(info[sub]) = 0
                          \/ getSubscriberCount(info[sub]) >= minSubs
                       THEN sub
                       ELSE lenientScan(i + 1, tried \cup {sub}, cands, baseSeed,
                                        minSubs, info)

AllName == <<"a", "l", "l">>

\* pickSubredditForMode, first version of the file ("lenient if subscriber count unknown")
pickSubredditForModeLenient(dateKey, mode, listing, info) ==
    LET cands == candidatesOf(listing)
    IN  IF cands = <<>> THEN AllName
        ELSE lenientScan(0, {}, cands,
                         seedFromString(seedText(dateKey, mode,
                                                 <<"s", "u", "b", "p", "i", "c", "k">>)),
                         minSubsForMode(mode), info)


\* Array.from(new Set(rawSubs)): the first occurrence of each name, in order
RECURSIVE uniqueOf(_)
uniqueOf(names) ==
    IF names = <<>> THEN <<>>
    ELSE LET rest == uniqueOf(SubSeq(names, 1, Len(names) - 1))
             last == names[Len(names)]
         IN  IF \E i \in 1..Len(rest) : rest[i] = last THEN rest ELSE Append(rest, last)

\* [a[i], a[j]] = [a[j], a[i]] (positions counted from 1)
swap(a, i, j) == [a EXCEPT ![i] = a[j], ![j] = a[i]]

\* the loop of shuffleDeterministic, for i = a.length - 1 down to 1
RECURSIVE shuffleFrom(_, _, _)
shuffleFrom(a, x, i) ==
    IF i <= 0 \/ x \notin (0..65535) \X (0..65535) THEN a
    ELSE shuffleFrom(swap(a, i + 1, 1 + absMod(xorshift(x), i + 1)), xorshift(x), i - 1)

shuffleDeterministic(arr, seed) == shuffleFrom(arr, seedOrDefault(seed), Len(arr) - 1)

\* safeSubInfo: the metadata, or null when the lookup throws
safeSubInfo(info, name) == info[name]

\* the hard tier's loop: the first scanned community with metadata that is not adult
RECURSIVE hardScan(_, _, _)
hardScan(i, subsToScan, info) ==
    IF i > Min(40, Len(subsToScan)) THEN Absent
    ELSE IF safeSubInfo(info, subsToScan[i]) = Throws
              \/ isNsfwSub(safeSubInfo(info, subsToScan[i]))
         THEN hardScan(i + 1, subsToScan, info)
         ELSE subsToScan[i]

\* the easy/medium loop: r.qualifying (records sub, subs) and r.unknownButSafe
RECURSIVE tierScan(_, _, _, _, _)
tierScan(i, subsToScan, info, minSubs, r) ==
    IF i > Min(60, Len(subsToScan)) \/ Len(r.qualifying) >= 12 THEN r
    ELSE LET sub == subsToScan[i]
             a == safeSubInfo(info, sub)
         IN  IF a = Throws \/ isNsfwSub(a)
             THEN tierScan(i + 1, subsToScan, info, minSubs, r)
             ELSE IF getSubscriberCount(a) > 0
                  THEN tierScan(i + 1, subsToScan, info, minSubs,
                                IF getSubscriberCount(a) >= minSubs
                                THEN [r EXCEPT !.qualifying =
                                        Append(@, [sub |-> sub,
                                                   subs |-> getSubscriberCount(a)])]
                                ELSE r)
                  ELSE tierScan(i + 1, subsToScan, info, minSubs,
                                [r EXCEPT !.unknownButSafe = Append(@, sub)])

\* qualifying.sort((a, b) => b.subs - a.subs): descending, equal counts keep their order
RECURSIVE sortBySubsDesc(_)
sortBySubsDesc(q) ==
    IF q = <<>> THEN <<>>
    ELSE LET rest == sortBySubsDesc(SubSeq(q, 1, Len(q) - 1))
             e == q[Len(q)]
             before == SelectSeq(rest, LAMBDA y : y.subs >= e.subs)
             after == SelectSeq(rest, LAMBDA y : y.subs < e.subs)
         IN  before \o <<e>> \o after

\* pickSubredditForMode, second version of the file (shuffled scan, known counts only)
pickSubredditForModeShuffle(dateKey, mode, listing, info) ==
    LET uniqueSubs == uniqueOf(candidatesOf(listing))
        scanSeed == seedFromString(seedText(dateKey, mode, <<"s", "c", "a", "n">>))
        subsToScan == shuffleDeterministic(uniqueSubs, scanSeed)
        fallback == subsToScan[1 + pickIndex(Len(subsToScan), scanSeed)]
        r == tierScan(1, subsToScan, info, minSubsForMode(mode),
                      [qualifying |-> <<>>, unknownButSafe |-> <<>>])
        sorted == sortBySubsDesc(r.qualifying)
        bucket == IF mode = "easy"
                  THEN SubSeq(sorted, 1, Min(12, Len(sorted)))
                  ELSE r.qualifying
    IN  IF uniqueSubs = <<>> THEN AllName
        ELSE IF mode = "hard"
             THEN IF hardScan(1, subsToScan, info) # Absent
                  THEN hardScan(1, subsToScan, info)
                  ELSE fallback
             ELSE IF Len(r.qualifying) > 0
                  THEN bucket[1 + pickIndex(Len(bucket),
                                  seedFromString(seedText(dateKey, mode,
                                      <<"p", "i", "c", "k", "Q", "u", "a", "l", "i", "f",
                                        "i", "e", "d">>)))].sub
                  ELSE IF Len(r.unknownButSafe) > 0
                       THEN r.unknownButSafe[1 + pickIndex(Len(r.unknownButSafe),
                                  seedFromString(seedText(dateKey, mode,
                                      <<"p", "i", "c", "k", "U", "n", "k", "n", "o", "w",
                                        "n">>)))]
                       ELSE fallback

(***************************************************************************)
(* buildDailyPuzzle without its cache: the comment pool and the puzzle.    *)
(***************************************************************************)
\* lower.includes(t)
Includes(body, t) == \E i \in 1..(Len(body) - Len(t) + 1) : SubSeq(body, i, i + Len(t) - 1) = t

\* (c.body ?? "").toString().trim()
bodyOf(c) == IF c.body = Absent THEN <<>> ELSE Trim(c.body)

Deleted == <<"[", "d", "e", "l", "e", "t", "e", "d", "]">>
Removed == <<"[", "r", "e", "m", "o", "v", "e", "d", "]">>

\* a looser filter that takes every comment
passesLoose_Any(body) == TRUE

\* the looser filter: c.body && c.body !== "[deleted]" && c.body !== "[removed]"
passesLoose(body) == body # <<>> /\ body # Deleted /\ body # Removed

\* the primary filter without its length test
passesPrimary_AnyLength(body, subreddit) ==
    /\ body # <<>>
    /\ body # Deleted /\ body # Removed
    /\ ~Includes(ToLower(body), <<"r", "/">> \o ToLower(subreddit))
    /\ ~Includes(ToLower(body), <<"t", "h", "i", "s", " ", "s", "u", "b">>)
    /\ ~Includes(ToLower(body), <<"i", " ", "a", "m", " ", "a", " ", "b", "o", "t">>)
    /\ ~Includes(ToLower(body), <<"a", "u", "t", "o", "m", "o", "d">>)

\* the primary filter on a trimmed body
passesPrimary(body, subreddit) ==
    /\ body # <<>>
    /\ body # Deleted /\ body # Removed
    /\ Len(body) >= 25
    /\ LET lower == ToLower(body)
       IN  /\ ~Includes(lower, <<"r", "/">> \o ToLower(subreddit))
           /\ ~Includes(lower, <<"t", "h", "i", "s", " ", "s", "u", "b">>)
           /\ ~Includes(lower, <<"t", "h", "i", "s", " ", "s", "u", "b", "r", "e", "d", "d",
                                 "i", "t">>)
           /\ ~Includes(lower, <<"i", " ", "a", "m", " ", "a", " ", "b", "o", "t">>)
           /\ ~Includes(lower, <<"a", "u", "t", "o", "m", "o", "d">>)

\* comments.map((c) => ({ id, body: trimmed body }))
mapped(comments) == [i \in 1..Len(comments) |-> [id |-> comments[i].id, body |-> bodyOf(comments[i])]]

\* usable.length ? usable.slice(0, 60) : (the looser filter).slice(0, 60)
poolOf(comments, subreddit) ==
    LET usable == SelectSeq(mapped(comments), LAMBDA c : passesPrimary(c.body, subreddit))
        loose == SelectSeq(mapped(comments), LAMBDA c : passesLoose(c.body))
        chosen == IF Len(usable) > 0 THEN usable ELSE loose
    IN  SubSeq(chosen, 1, Min(60, Len(chosen)))

(***************************************************************************)
(* Snapshots of the content source and the uncached build.  src holds one  *)
(* snapshot; bld is the build in progress; built[mode] is the set of       *)
(* outcomes of the finished builds of a mode.                              *)
(***************************************************************************)
Modes == {"easy", "medium", "hard"}

\* what the content source can answer a build with
Communities == {<<"A", "b">>, <<"c", "d">>}

DateKeyTexts == {<<"2", "0", "2", "4", "-", "0", "1", "-", "0", "9">>,
                 <<"2", "0", "2", "4", "-", "0", "1", "-", "1", "0">>}

\* the posts a listing of r/all is made of: one that names its community in
\* subredditName, one that names it in subreddit, one that names none
ListingPosts ==
    {[id |-> "t3_a", title |-> <<"t">>, selftext |-> Absent,
      subredditName |-> <<"A", "b">>, subreddit |-> Absent],
     [id |-> "t3_c", title |-> <<"t">>, selftext |-> <<"s">>,
      subredditName |-> Absent, subreddit |-> <<"c", "d">>],
     [id |-> "t3_n", title |-> <<"t">>, selftext |-> Absent,
      subredditName |-> Absent, subreddit |-> Absent]}

Listings == UNION {[1..n -> ListingPosts] : n \in 0..MaxListing}

\* answers of getSubredditInfoByName: a failed lookup, an adult community, no count
\* field, and counts below, between and above the two thresholds
Infos ==
    {Throws,
     [over_18 |-> TRUE, subscribers |-> 2000000],
     [title |-> <<"t">>],
     [communitySize |-> 500],
     [subscriberCount |-> 20000],
     [subscribers |-> 2000000]}

\* the posts of a community's own listing
OwnPosts(sub) ==
    <<[id |-> "t3_1", title |-> <<"t">>, selftext |-> Absent,
       subredditName |-> sub, subreddit |-> Absent],
      [id |-> "t3_2", title |-> <<"t">>, selftext |-> <<"s">>,
       subredditName |-> sub, subreddit |-> Absent]>>

PostIds == {"t3_a", "t3_c", "t3_n", "t3_1", "t3_2"}

\* comment bodies: two that pass the primary filter (25 and 26 characters), one of 24
\* characters, the same padded with spaces, the placeholders, empty and blank bodies,
\* a missing body, a mention of r/Ab, "this subreddit", a bot signature
Bodies ==
    {<<"a", "b", "c", "d", "e", "a", "b", "c", "d", "e", "a", "b", "c", "d", "e", "a", "b", "c", "d", "e", "a", "b", "c", "d", "e">>,
     <<"h", "u", "b", " ", "i", "s", " ", "a", " ", "h", "u", "b", " ", "i", "s", " ", "a", " ", "h", "u", "b", " ", "i", "s", " ", "a">>,
     <<"a", "b", "c", "d", "e", "a", "b", "c", "d", "e", "a", "b", "c", "d", "e", "a", "b", "c", "d", "e", "a", "b", "c", "d">>,
     <<" ", "a", "b", "c", "d", "e", "a", "b", "c", "d", "e", "a", "b", "c", "d", "e", "a", "b", "c", "d", "e", "a", "b", "c", "d", " ", " ">>,
     <<"[", "d", "e", "l", "e", "t", "e", "d", "]">>,
     <<" ", "[", "r", "e", "m", "o", "v", "e", "d", "]", " ">>,
     <<>>,
     <<" ", " ", " ">>,
     <<"s", "e", "e", " ", "R", "/", "A", "B", ",", " ", "a", "b", "c", "d", "e", " ", "a", "b", "c", "d", "e", " ", "a", "b", "c", "d", "e">>,
     <<"a", "b", "c", "d", "e", " ", "t", "h", "i", "s", " ", "s", "u", "b", "r", "e", "d", "d", "i", "t", " ", "a", "b", "c", "d", "e">>,
     <<"b", "e", "e", "p", " ", "b", "e", "e", "p", ":", " ", "I", " ", "a", "m", " ", "A", " ", "B", "o", "T", " ", "b", "e", "e", "p">>,
     <<"r", "e", "m", "o", "v", "e", "d", " ", "b", "y", " ", "A", "u", "t", "o", "M", "o", "d", " ", "a", "b", "c", "d", "e", " ", "a", "b">>,
     Absent}

GoodComments ==
    <<[id |-> "t1_1", body |-> <<"a", "b", "c", "d", "e", "a", "b", "c", "d", "e", "a", "b", "c", "d", "e", "a", "b", "c", "d", "e", "a", "b", "c", "d", "e">>],
      [id |-> "t1_2", body |-> <<"h", "u", "b", " ", "i", "s", " ", "a", " ", "h", "u", "b", " ", "i", "s", " ", "a", " ", "h", "u", "b", " ", "i", "s", " ", "a">>]>>

CommentSeqs ==
    UNION {{[i \in 1..n |-> [id |-> IF i = 1 THEN "t1_1" ELSE "t1_2", body |-> f[i]]] :
                f \in [1..n -> Bodies]} : n \in 0..MaxComments}

\* snapshots that vary the listing and the metadata, snapshots that vary the comments
\* under the posts, one where the community has no posts, and one where getComments
\* rejects (commentsFail)
Snapshots ==
    {[listing |-> l, info |-> i,
      posts |-> [c \in Communities |-> OwnPosts(c)],
      comments |-> [id \in PostIds |-> GoodComments], commentsFail |-> FALSE] :
        l \in Listings, i \in [Communities -> Infos]}
    \cup
    {[listing |-> <<CHOOSE q \in ListingPosts : q.id = "t3_a">>,
      info |-> [c \in Communities |-> [subscriberCount |-> 20000]],
      posts |-> [c \in Communities |-> OwnPosts(c)],
      comments |-> [id \in PostIds |-> cs], commentsFail |-> FALSE] :
        cs \in CommentSeqs}
    \cup
    {[listing |-> <<CHOOSE q \in ListingPosts : q.id = "t3_a">>,
      info |-> [c \in Communities |-> [subscriberCount |-> 20000]],
      posts |-> [c \in Communities |-> <<>>],
      comments |-> [id \in PostIds |-> GoodComments], commentsFail |-> FALSE]}
    \cup
    {[listing |-> <<CHOOSE q \in ListingPosts : q.id = "t3_a">>,
      info |-> [c \in Communities |-> [subscriberCount |-> 20000]],
      posts |-> [c \in Communities |-> OwnPosts(c)],
      comments |-> [id \in PostIds |-> GoodComments], commentsFail |-> TRUE]}

NoSource ==
    [listing |-> <<>>, info |-> [c \in Communities |-> Throws],
     posts |-> [c \in Communities |-> <<>>], comments |-> [id \in PostIds |-> <<>>],
     commentsFail |-> FALSE]

NoBuild == [pc |-> "idle", dateKey |-> <<>>, mode |-> "", subreddit |-> <<>>, post |-> <<>>,
            n |-> 0]

NothingBuilt == [m \in Modes |-> {}]

\* pickSubredditForMode without a last resort: when no metadata lookup succeeds it
\* gives up and answers r/all
pickSubredditForMode_NoFallback(dateKey, mode) ==
    IF \A i \in 1..Len(candidatesOf(src.listing)) :
           src.info[candidatesOf(src.listing)[i]] = Throws
    THEN AllName
    ELSE IF variant = "rich"
    THEN pickSubredditForModeLenient(dateKey, mode, src.listing, src.info)
    ELSE pickSubredditForModeShuffle(dateKey, mode, src.listing, src.info)

\* the two versions of pickSubredditForMode, on the snapshot
pickSubredditForMode(dateKey, mode) ==
    IF variant = "rich"
    THEN pickSubredditForModeLenient(dateKey, mode, src.listing, src.info)
    ELSE pickSubredditForModeShuffle(dateKey, mode, src.listing, src.info)

\* getNewPosts({ subredditName }): r/all answers with the listing
postsOf(subreddit) == IF subreddit = AllName THEN src.listing ELSE src.posts[subreddit]

\* the build has ended with outcome o (a puzzle, or the error it threw)
FinishBuild(o) ==
    /\ bld' = [bld EXCEPT !.pc = "idle"]
    /\ built' = [built EXCEPT ![bld.mode] = @ \cup {o}]

\* a call of buildDailyPuzzle(dateKey, mode) that misses the cache
BeginBuild(mode) ==
    /\ bld.pc = "idle"
    /\ bld.n < MaxBuilds
    /\ ~Has(store, cacheKey(bld.dateKey, mode))
    /\ bld' = [bld EXCEPT !.pc = "pick", !.mode = mode, !.n = @ + 1]
    /\ UNCHANGED <<src, built, variant, dq, pq, twin, now, store, pr, nReq, Ghosts>>

\* const subreddit = await pickSubredditForMode(dateKey, mode)
PickSubreddit ==
    /\ bld.pc = "pick"
    /\ bld' = [bld EXCEPT !.pc = "posts",
                          !.subreddit = pickSubredditForMode(bld.dateKey, bld.mode)]
    /\ UNCHANGED <<src, built, variant, dq, pq, twin, now, store, pr, nReq, Ghosts>>

\* posts = ...; if (posts.length === 0) throw; post = posts[pickIndex(...)]
PickPost ==
    LET posts == postsOf(bld.subreddit)
        seed == seedFromString(seedText(bld.dateKey, bld.mode,
                                        bld.subreddit \o <<":", "p", "o", "s", "t">>))
    IN  /\ bld.pc = "posts"
        /\ IF posts = <<>>
           THEN FinishBuild([error |-> "No posts found"])
           ELSE /\ bld' = [bld EXCEPT !.pc = "comments",
                                      !.post = posts[1 + pickIndex(Len(posts), seed)]]
                /\ UNCHANGED built
        /\ UNCHANGED <<src, variant, dq, pq, twin, now, store, pr, nReq, Ghosts>>

\* comments (a getComments that rejects is not caught: the build throws), usable, pool;
\* if (pool.length === 0) throw; comment = pool[pickIndex(...)];
\* the puzzle; redis.set(cacheKey) and redis.expire(cacheKey), taken in one step because
\* no other call runs during a build of this specification
PickComment ==
    LET pool == poolOf(src.comments[bld.post.id], bld.subreddit)
        seed == seedFromString(seedText(bld.dateKey, bld.mode,
                    bld.subreddit \o <<":", "c", "o", "m", "m", "e", "n", "t">>))
        comment == pool[1 + pickIndex(Len(pool), seed)]
        k == cacheKey(bld.dateKey, bld.mode)
    IN  /\ bld.pc = "comments"
        /\ IF src.commentsFail
           THEN /\ FinishBuild([error |-> "getComments failed"])
                /\ UNCHANGED store
           ELSE IF pool = <<>>
           THEN /\ FinishBuild([error |-> "No usable comments"])
                /\ UNCHANGED store
           ELSE /\ FinishBuild([dateKey |-> bld.dateKey, mode |-> bld.mode,
                                subreddit |-> bld.subreddit, postId |-> bld.post.id,
                                postTitle |-> bld.post.title,
                                postBody |-> IF bld.post.selftext = Absent THEN <<>>
                                             ELSE bld.post.selftext,
                                commentId |-> comment.id, commentBody |-> comment.body])
                /\ store' = RedisExpire(RedisSet(store, k, bld.subreddit), k, now)
        /\ UNCHANGED <<src, variant, dq, pq, twin, now, pr, nReq, Ghosts>>

\* 48 hours pass between two calls: the cached puzzles are gone
Lapse ==
    /\ bld.pc = "idle"
    /\ bld.n < MaxBuilds
    /\ store # <<>>
    /\ now' = now + TTL
    /\ store' = Sweep(store, now + TTL)
    /\ UNCHANGED <<buildVars, variant, dq, pq, twin, pr, nReq, Ghosts>>

(***************************************************************************)
(* Date keys as text.  The clock of this part is a day of the calendar     *)
(* Civil, which answers getUTCFullYear, getUTCMonth (0 for January) and    *)
(* getUTCDate; Date.now() is read within one UTC day during a call.        *)
(***************************************************************************)
Civil ==
    <<[year |-> 2023, month |-> 11, date |-> 29], [year |-> 2023, month |-> 11, date |-> 30],
      [year |-> 2023, month |-> 11, date |-> 31], [year |-> 2024, month |-> 0, date |-> 1],
      [year |-> 2024, month |-> 0, date |-> 2], [year |-> 2024, month |-> 0, date |-> 3]>>

\* the days on which a request arrives: those with a yesterday and a tomorrow in Civil
ClockDays == {t \in 1..Len(Civil) : t - 1 \in 1..Len(Civil) /\ t + 1 \in 1..Len(Civil)}

\* String(n).padStart(2, "0")
padStart2(n) == IF Len(numberText(<<0, n>>)) < 2 THEN <<"0">> \o numberText(<<0, n>>)
                ELSE numberText(<<0, n>>)

\* utcDateKey(d): `${y}-${m}-${day}`, for the day t of Civil
utcDateKeyText(t) ==
    numberText(<<0, Civil[t].year>>) \o <<"-">> \o padStart2(Civil[t].month + 1)
        \o <<"-">> \o padStart2(Civil[t].date)

\* utcDateKey(new Date(Date.now() + daysOffset * 24h))
utcDateKeyOffsetText(t, daysOffset) == utcDateKeyText(t + daysOffset)

Digits == {"0", "1", "2", "3", "4", "5", "6", "7", "8", "9"}

\* /^\d{4}-\d{2}-\d{2}$/.test(s)
isDateKeyShape(s) ==
    /\ Len(s) = 10
    /\ \A i \in {1, 2, 3, 4, 6, 7, 9, 10} : s[i] \in Digits
    /\ s[5] = "-" /\ s[8] = "-"

\* String(raw ?? "").trim(), then the shape test
normalizeClientDateKeyText(raw, t) ==
    LET s == IF raw = Absent THEN <<>> ELSE Trim(raw)
    IN  IF ~isDateKeyShape(s) THEN utcDateKeyText(t) ELSE s

\* a window without tomorrow
allowedKeys_NoTomorrow(t) == {utcDateKeyOffsetText(t, -1), utcDateKeyOffsetText(t, 0)}

\* new Set([utcDateKeyOffset(-1), utcDateKeyOffset(0), utcDateKeyOffset(1)])
allowedKeys(t) ==
    {utcDateKeyOffsetText(t, -1), utcDateKeyOffsetText(t, 0), utcDateKeyOffsetText(t, 1)}

resolveDateKeyText(raw, t) ==
    LET dk == normalizeClientDateKeyText(raw, t)
    IN  IF dk \notin allowedKeys(t) THEN utcDateKeyText(t) ELSE dk

\* what a client sends as dateKey: nothing, the empty text, the key of each day of
\* Civil, and texts that are padded, misshapen or name no day
RawDateTexts ==
    {Absent, <<>>} \cup {utcDateKeyText(t) : t \in 1..Len(Civil)}
    \cup {<<" ", "2", "0", "2", "4", "-", "0", "1", "-", "0", "1", " ">>,
          <<"2", "0", "2", "4", "-", "1", "-", "0", "1">>,
          <<"2", "0", "2", "4", "-", "0", "1", "-", "1">>,
          <<"2", "0", "2", "4", "/", "0", "1", "/", "0", "1">>,
          <<"2", "0", "2", "4", "-", "0", "1", "-", "0", "1", "T">>,
          <<"2", "0", "2", "4", "0", "1", "0", "1">>,
          <<"2", "O", "2", "4", "-", "0", "1", "-", "0", "1">>,
          <<"2", "0", "2", "3", "-", "1", "2", "-", "3", "2">>,
          <<"2", "0", "2", "4", "-", "0", "0", "-", "0", "1">>,
          <<"2", "4", "-", "0", "1", "-", "0", "1">>,
          <<"2", "0", "2", "4", "-", "0", "1", "-", "0", "1", " ", "x">>}

NoDateQuery == [raw |-> Absent, day |-> 0, out |-> <<>>]

\* a call resolveDateKey(raw) on day dq.day
ResolveDate ==
    /\ dq.out = <<>>
    /\ dq.day \in ClockDays
    /\ dq' = [dq EXCEPT !.out = resolveDateKeyText(dq.raw, dq.day)]
    /\ UNCHANGED <<buildVars, variant, pq, twin, now, store, pr, nReq, Ghosts>>

(***************************************************************************)
(* Direct calls of pickIndex and of the judgement of a guess, on arguments  *)
(* drawn from small sets.                                                  *)
(***************************************************************************)
NoCall == [fn |-> "", done |-> FALSE]

\* lengths of the arrays pickIndex indexes (120 and 150 are the listing limits)
PickLens == {1, 2, 3, 7, 120, 150}

\* seeds as 32-bit words: 0, 1, 2^32 - 1, 2^31, 2^31 - 1, 123456789, and two whose
\* xorshift round ends in 0 and in 2^31 - 1
PickSeeds ==
    {<<0, 0>>, <<0, 1>>, <<65535, 65535>>, <<32768, 0>>, <<32767, 65535>>,
     <<1883, 52501>>, <<64512, 8191>>, <<54892, 48359>>}

\* texts a player types
JudgeTexts ==
    {<<"r", "/", "A", "b">>,
     <<" ", "/", "R", "/", "a", "B", " ">>,
     <<"A", "b">>,
     <<"r", "/", "r", "/", "A", "b">>,
     <<"A", " ", "b", "!">>,
     <<"a", "_", "b">>,
     <<"/", "r", "/", " ", "a", "b">>,
     <<"r", " ", "/", "A", "b">>,
     <<"/", "/", "r", "/", "A", "b">>,
     <<>>,
     <<"R", "/", "A", "B", "9">>,
     <<"A", "b", "r", "/">>,
     <<"r", "/", "r", "A", "b">>,
     <<"r", "A", "b">>,
     <<"a", "-", "b">>,
     <<"r", "/">>,
     <<" ", "r", "/", "a", "_", "b">>,
     <<"/", "r", "A", "b">>,
     <<"A", "B", " ", "9">>}

\* community names
JudgeAnswers == {<<"A", "b">>, <<"a", "_", "b">>, <<"r", "A", "b">>, <<"A", "B", "9">>}

\* pickIndex(len, seed)
CallPickIndex ==
    /\ pq.fn = "pickIndex" /\ ~pq.done
    /\ pq' = [pq EXCEPT !.out = pickIndex(pq.len, pq.seed), !.done = TRUE]
    /\ UNCHANGED <<buildVars, variant, dq, twin, now, store, pr, nReq, Ghosts>>

\* guess = normalizeGuess(subredditGuess); correct = guess.toLowerCase() ===
\* answer.toLowerCase()
CallJudge ==
    /\ pq.fn = "judge" /\ ~pq.done
    /\ pq' = [pq EXCEPT !.out = isCorrect(pq.text, pq.answer), !.done = TRUE]
    /\ UNCHANGED <<buildVars, variant, dq, twin, now, store, pr, nReq, Ghosts>>

(***************************************************************************)
(* Requests.  pr[p] is the request process p is serving, with the locals   *)
(* of its handler; Idle when it serves none.  Two fields are history, not  *)
(* locals: late (the mode was completed when the request arrived) and      *)
(* score0 (the stored score when it arrived).                              *)
(***************************************************************************)
Idle ==
    [pc |-> "idle", kind |-> "", user |-> "", mode |-> "", dk |-> 0,
     locked |-> FALSE, alreadyCompleted |-> FALSE, alreadyAwarded |-> FALSE,
     correct |-> FALSE, stage |-> 0, points |-> 0, prevScore |-> 0, lastDate |-> {},
     prevStreak |-> 0, answer |-> <<>>, rTotal |-> 0, rStreak |-> 0,
     rCompleted |-> FALSE, rLast |-> {}, late |-> FALSE, score0 |-> 0]

Rich == variant = "rich"

\* the (user, mode, dayKey) a request is about
KeyOf(r) == <<r.user, r.mode, r.dk>>

InFlight(p) == pr[p].pc \notin {"idle"}

At(f, k, dflt) == IF k \in DOMAIN f THEN f[k] ELSE dflt

Put(f, k, v) == [x \in DOMAIN f \cup {k} |-> IF x = k THEN v ELSE f[x]]

\* guess texts a client sends
GuessTexts == {<<"r", "/", "A", "B">>, <<" ", "/", "R", "/", "a", "-", "b", " ">>,
               <<"c", "d">>, <<"A", "b", "r", "/">>, <<>>}

\* body.stageUsed: 0 stands for a body without the field
RawStages == {0, 1, 2, 3}

\* the stages sent by the requests that are served concurrently
RawStagesConc == {0, 1}

Kinds == IF Rich THEN {"state", "lock", "giveup", "guess"} ELSE {"state", "lock", "guess"}

UserInputs == {"t2_u1"}

RawModes == {Absent, <<"M", "e", "d", "i", "u", "m">>, <<"x">>}

\* date keys a client sends at time t: none, a malformed one, or a well-formed day
RawDateKeys(t) ==
    {[wf |-> FALSE, day |-> 0]}
        \cup {[wf |-> TRUE, day |-> d] : d \in (utcDateKey(t) - 2)..(utcDateKey(t) + 2)}

\* the date keys sent with the requests that are served concurrently: none, yesterday,
\* and a day outside the window
RawDateKeysConc(t) ==
    {[wf |-> FALSE, day |-> 0], [wf |-> TRUE, day |-> utcDateKey(t) - 1],
     [wf |-> TRUE, day |-> utcDateKey(t) + 2]}

\* const dateKey = resolveDateKey(...) in the richer routes, utcDateKey() in the legacy ones
dateKeyOf(rd, t) == IF Rich THEN resolveDateKey(rd, t) ELSE utcDateKey(t)

\* what reddit.getCurrentUser() answers when nobody is logged in
NoUser == "?none"

\* const userId = user?.id ?? "anon" (a logged-in user is written as its id)
userIdOf(user) == IF user = NoUser THEN "anon" ELSE user

\* the handler's prelude: normalizeMode, resolveDateKey (the legacy routes use
\* utcDateKey()), getCurrentUser; the request comes from one of users, with one of
\* rawModes as its mode
StartFrom(p, maxR, rawDates, users, rawModes) ==
    /\ pr[p].pc = "idle"
    /\ nReq < maxR
    /\ nReq' = nReq + 1
    /\ \E kind \in Kinds, user \in users, rm \in rawModes, rd \in rawDates :
          LET u == userIdOf(user)
          IN  pr' = [pr EXCEPT ![p] =
                        [Idle EXCEPT !.pc = "readCommitted", !.kind = kind, !.user = u,
                                     !.mode = normalizeMode(rm),
                                     !.dk = dateKeyOf(rd, now),
                                     !.late = readCompleted(store, u, normalizeMode(rm),
                                                            dateKeyOf(rd, now)),
                                     !.score0 = NumberAt(store,
                                                         kScore(u, normalizeMode(rm)))]]
    /\ UNCHANGED <<buildVars, variant, dq, pq, twin, now, store, Ghosts>>

Start(p, maxR, rawDates) == StartFrom(p, maxR, rawDates, UserInputs, RawModes)

\* the visitors of the isolation check: two logged-in users and one who is not
IsoUsers == {"t2_u1", "t2_u2", NoUser}

\* the modes they send: none (medium), easy and hard
IsoRawModes == {Absent, <<"e", "a", "s", "y">>, <<"H", "A", "R", "D">>}

\* every route commits, /state too
needsCommit_StateToo(kind, isCommitted) == ~isCommitted

\* if (!(await readCommitted(...))) await commitMode(...): in /lock, /giveup and
\* /guess, never in /state
needsCommit(kind, isCommitted) == kind # "state" /\ ~isCommitted

\* where a handler goes once the mode is committed (for /state: once it has read the flag)
AfterCommit(kind) ==
    CASE kind = "lock" -> IF Rich THEN "readCompleted" ELSE "done"
      [] kind = "giveup" -> "readCompleted"
      [] kind = "state" -> IF Rich THEN "readCompleted" ELSE "cacheGet"
      [] OTHER -> "cacheGet"

\* where a handler goes once buildDailyPuzzle has returned
AfterBuild(kind) ==
    CASE kind = "state" -> "respScore"
      [] kind = "giveup" -> "done"
      [] OTHER -> "judge"

\* history: a guess or giveup response that is sent while the mode is completed
NoteAnswer(r, st) ==
    IF r.kind \in {"guess", "giveup"} /\ readCompleted(st, r.user, r.mode, r.dk)
    THEN Put(doneAns, KeyOf(r), At(doneAns, KeyOf(r), {}) \cup {r.answer})
    ELSE doneAns

\* process p takes the step that leads it to pc `to` with locals r and store st
Goto(p, r, to, st) ==
    /\ pr' = [pr EXCEPT ![p] = [r EXCEPT !.pc = to]]
    /\ store' = st
    /\ doneAns' = IF to = "done" THEN NoteAnswer(r, st) ELSE doneAns
    /\ UNCHANGED <<buildVars, variant, dq, pq, twin, now, nReq, expiredAny>>

\* await readCommitted(userId, requestedMode, dateKey)
ReadCommitted(p) ==
    LET r == pr[p]
        c == readCommitted(store, r.user, r.mode, r.dk)
    IN  /\ r.pc = "readCommitted"
        /\ Goto(p, [r EXCEPT !.locked = c],
                IF needsCommit(r.kind, c) THEN "setCommit" ELSE AfterCommit(r.kind), store)
        /\ UNCHANGED <<credited, nScored, nCorrect>>

\* commitMode: await redis.set(key, "1")
SetCommit(p) ==
    LET r == pr[p]
    IN  /\ r.pc = "setCommit"
        /\ Goto(p, r, "expCommit", commitModeSet(store, r.user, r.mode, r.dk))
        /\ UNCHANGED <<credited, nScored, nCorrect>>

\* commitMode: await redis.expire(key, 60 * 60 * 48)
ExpCommit(p) ==
    LET r == pr[p]
    IN  /\ r.pc = "expCommit"
        /\ Goto(p, r, AfterCommit(r.kind), commitModeExpire(store, r.user, r.mode, r.dk, now))
        /\ UNCHANGED <<credited, nScored, nCorrect>>

\* await readCompleted(...) of /state, /lock, /giveup, and alreadyCompleted of /guess
ReadCompleted(p) ==
    LET r == pr[p]
        c == readCompleted(store, r.user, r.mode, r.dk)
    IN  /\ r.pc = "readCompleted"
        /\ CASE r.kind = "state" -> Goto(p, [r EXCEPT !.rCompleted = c], "cacheGet", store)
             [] r.kind = "lock" -> Goto(p, [r EXCEPT !.rCompleted = c], "done", store)
             [] r.kind = "giveup" ->
                   Goto(p, [r EXCEPT !.alreadyCompleted = c],
                        IF c THEN "cacheGet" ELSE "setCompleted", store)
             [] OTHER -> Goto(p, [r EXCEPT !.alreadyCompleted = c], "getPlayed", store)
        /\ UNCHANGED <<credited, nScored, nCorrect>>

\* buildDailyPuzzle: const cached = await redis.get(cacheKey)
CacheGet(p) ==
    LET r == pr[p]
        k == cacheKey(r.dk, r.mode)
    IN  /\ r.pc = "cacheGet"
        /\ IF Has(store, k)
           THEN Goto(p, [r EXCEPT !.answer = store[k].v], AfterBuild(r.kind), store)
           ELSE Goto(p, r, "build", store)
        /\ UNCHANGED <<credited, nScored, nCorrect>>

\* buildDailyPuzzle: the content-source calls; they end with a puzzle of some
\* community, or throw (no posts, no usable comments, a failed call)
Build(p) ==
    LET r == pr[p]
    IN  /\ r.pc = "build"
        /\ \/ \E a \in Communities : Goto(p, [r EXCEPT !.answer = a], "cacheSet", store)
           \/ Goto(p, r, "failed", store)
        /\ UNCHANGED <<credited, nScored, nCorrect>>

\* buildDailyPuzzle: await redis.set(cacheKey, JSON.stringify(puzzle))
CacheSet(p) ==
    LET r == pr[p]
    IN  /\ r.pc = "cacheSet"
        /\ Goto(p, r, "cacheExp", RedisSet(store, cacheKey(r.dk, r.mode), r.answer))
        /\ UNCHANGED <<credited, nScored, nCorrect>>

\* buildDailyPuzzle: await redis.expire(cacheKey, 60 * 60 * 48)
CacheExp(p) ==
    LET r == pr[p]
    IN  /\ r.pc = "cacheExp"
        /\ Goto(p, r, AfterBuild(r.kind), RedisExpire(store, cacheKey(r.dk, r.mode), now))
        /\ UNCHANGED <<credited, nScored, nCorrect>>

\* /guess: normalizeGuess, correct (the body's subredditGuess and stageUsed are
\* first used here)
Judge(p, rawStages) ==
    LET r == pr[p]
    IN  /\ r.pc = "judge"
        /\ \E text \in GuessTexts, rs \in rawStages :
              LET ok == isCorrect(text, r.answer)
              IN  /\ Goto(p, [r EXCEPT !.correct = ok, !.stage = stageOf(rs)],
                          IF Rich THEN "readCompleted" ELSE "getPlayed", store)
                  /\ nCorrect' = IF ok
                                 THEN Put(nCorrect, KeyOf(r), At(nCorrect, KeyOf(r), 0) + 1)
                                 ELSE nCorrect
        /\ UNCHANGED <<credited, nScored>>

\* /guess: alreadyAwarded = (await redis.get(playedKey)) === "1", then the branch
GetPlayed(p) ==
    LET r == pr[p]
        a == IsOne(store, kPlayed(r.user, r.mode, r.dk))
        award == awardsNow(r.alreadyCompleted, r.correct, a)
    IN  /\ r.pc = "getPlayed"
        /\ Goto(p, [r EXCEPT !.alreadyAwarded = a,
                             !.points = IF award THEN pointsFor(r.stage) ELSE 0],
                IF award THEN "setPlayed"
                ELSE IF Rich /\ ~r.alreadyCompleted /\ finishesNow(r.correct, r.stage)
                     THEN "setCompleted"
                     ELSE "respScore",
                store)
        /\ UNCHANGED <<credited, nScored, nCorrect>>

\* await redis.set(playedKey, "1")
SetPlayed(p) ==
    LET r == pr[p]
    IN  /\ r.pc = "setPlayed"
        /\ Goto(p, r, "expPlayed", RedisSet(store, kPlayed(r.user, r.mode, r.dk), "1"))
        /\ UNCHANGED <<credited, nScored, nCorrect>>

\* await redis.expire(playedKey, 60 * 60 * 48)
ExpPlayed(p) ==
    LET r == pr[p]
    IN  /\ r.pc = "expPlayed"
        /\ Goto(p, r, "getScore", RedisExpire(store, kPlayed(r.user, r.mode, r.dk), now))
        /\ UNCHANGED <<credited, nScored, nCorrect>>

\* prevScore = Number((await redis.get(kScore)) ?? 0)
GetScore(p) ==
    LET r == pr[p]
    IN  /\ r.pc = "getScore"
        /\ Goto(p, [r EXCEPT !.prevScore = NumberAt(store, kScore(r.user, r.mode))],
                "setScore", store)
        /\ UNCHANGED <<credited, nScored, nCorrect>>

\* await redis.set(kScore, String(prevScore + pointsAwarded))
SetScore(p) ==
    LET r == pr[p]
        old == NumberAt(store, kScore(r.user, r.mode))
        new == r.prevScore + r.points
    IN  /\ r.pc = "setScore"
        /\ Goto(p, r, "getLastDate", RedisSet(store, kScore(r.user, r.mode), new))
        /\ credited' = Put(credited, KeyOf(r), At(credited, KeyOf(r), 0) + new - old)
        /\ nScored' = IF new > old
                      THEN Put(nScored, KeyOf(r), At(nScored, KeyOf(r), 0) + 1)
                      ELSE nScored
        /\ UNCHANGED nCorrect

\* lastDate = (await redis.get(kLastDate)) ?? ""
GetLastDate(p) ==
    LET r == pr[p]
    IN  /\ r.pc = "getLastDate"
        /\ Goto(p, [r EXCEPT !.lastDate = DayAt(store, kLastDate(r.user, r.mode))],
                "getStreak", store)
        /\ UNCHANGED <<credited, nScored, nCorrect>>

\* prevStreak = Number((await redis.get(kStreak)) ?? 0)
GetStreak(p) ==
    LET r == pr[p]
    IN  /\ r.pc = "getStreak"
        /\ Goto(p, [r EXCEPT !.prevStreak = NumberAt(store, kStreak(r.user, r.mode))],
                "setStreak", store)
        /\ UNCHANGED <<credited, nScored, nCorrect>>

\* yesterday = utcDateKey(new Date(Date.now() - 24h)); await redis.set(kStreak, newStreak)
SetStreak(p) ==
    LET r == pr[p]
        yesterday == utcDateKeyOffset(now, -1)
    IN  /\ r.pc = "setStreak"
        /\ Goto(p, r, "setLastDate",
                RedisSet(store, kStreak(r.user, r.mode),
                         newStreak(r.lastDate, yesterday, r.prevStreak)))
        /\ UNCHANGED <<credited, nScored, nCorrect>>

\* await redis.set(kLastDate, dateKey); a win finishes the mode
SetLastDate(p) ==
    LET r == pr[p]
    IN  /\ r.pc = "setLastDate"
        /\ Goto(p, r, IF Rich THEN "setCompleted" ELSE "respScore",
                RedisSet(store, kLastDate(r.user, r.mode), r.dk))
        /\ UNCHANGED <<credited, nScored, nCorrect>>

\* setCompleted: await redis.set(key, "1")
SetCompleted(p) ==
    LET r == pr[p]
    IN  /\ r.pc = "setCompleted"
        /\ Goto(p, r, "expCompleted", setCompletedSet(store, r.user, r.mode, r.dk))
        /\ UNCHANGED <<credited, nScored, nCorrect>>

\* setCompleted: await redis.expire(key, 60 * 60 * 48)
ExpCompleted(p) ==
    LET r == pr[p]
    IN  /\ r.pc = "expCompleted"
        /\ Goto(p, r, IF r.kind = "giveup" THEN "cacheGet" ELSE "respScore",
                setCompletedExpire(store, r.user, r.mode, r.dk, now))
        /\ UNCHANGED <<credited, nScored, nCorrect>>

\* the response's totalScore taken from the value read at line 364 instead of
\* being read again at line 386
RespScore_Stale(p) ==
    LET r == pr[p]
    IN  /\ r.pc = "respScore"
        /\ Goto(p, [r EXCEPT !.rTotal = r.prevScore], "respStreak", store)
        /\ UNCHANGED <<credited, nScored, nCorrect>>

\* the response's totalScore
RespScore(p) ==
    LET r == pr[p]
    IN  /\ r.pc = "respScore"
        /\ Goto(p, [r EXCEPT !.rTotal = NumberAt(store, kScore(r.user, r.mode))],
                "respStreak", store)
        /\ UNCHANGED <<credited, nScored, nCorrect>>

\* the response's streak
RespStreak(p) ==
    LET r == pr[p]
    IN  /\ r.pc = "respStreak"
        /\ Goto(p, [r EXCEPT !.rStreak = NumberAt(store, kStreak(r.user, r.mode))],
                IF r.kind = "state" THEN "respLast"
                ELSE IF Rich THEN "respCompleted" ELSE "done",
                store)
        /\ UNCHANGED <<credited, nScored, nCorrect>>

\* /state: lastPlayedDateKey
RespLast(p) ==
    LET r == pr[p]
    IN  /\ r.pc = "respLast"
        /\ Goto(p, [r EXCEPT !.rLast = DayAt(store, kLastDate(r.user, r.mode))], "done", store)
        /\ UNCHANGED <<credited, nScored, nCorrect>>

\* /guess: completedToday = await readCompleted(...)
RespCompleted(p) ==
    LET r == pr[p]
    IN  /\ r.pc = "respCompleted"
        /\ Goto(p, [r EXCEPT !.rCompleted = readCompleted(store, r.user, r.mode, r.dk)],
                "done", store)
        /\ UNCHANGED <<credited, nScored, nCorrect>>

\* the response (or the error) has been sent
Return(p) ==
    /\ pr[p].pc \in {"done", "failed"}
    /\ pr' = [pr EXCEPT ![p] = Idle]
    /\ UNCHANGED <<buildVars, variant, dq, pq, twin, now, store, nReq, Ghosts>>

\* midnight UTC: the clock advances by one day and the keys whose time to live has
\* run out are gone.  A request is served within one UTC day: midnight falls when no
\* request is in flight.
Tick ==
    /\ now < MaxDay
    /\ \A p \in Procs : ~InFlight(p)
    /\ now' = now + 1
    /\ store' = Sweep(store, now + 1)
    /\ expiredAny' = (expiredAny \/ DOMAIN Sweep(store, now + 1) # DOMAIN store)
    /\ UNCHANGED <<buildVars, variant, dq, pq, twin, pr, nReq, credited, nScored, nCorrect, doneAns>>

\* a store call of the handler rejects: the handler throws at its await, the call
\* has written nothing, and the client gets an error
Interrupt(p) ==
    /\ pr[p].pc \notin {"idle", "done", "failed", "judge", "build"}
    /\ pr' = [pr EXCEPT ![p].pc = "failed"]
    /\ UNCHANGED <<buildVars, variant, dq, pq, twin, now, store, nReq, Ghosts>>

Step(p, rawStages) ==
    \/ ReadCommitted(p) \/ SetCommit(p) \/ ExpCommit(p) \/ ReadCompleted(p)
    \/ CacheGet(p) \/ Build(p) \/ CacheSet(p) \/ CacheExp(p)
    \/ Judge(p, rawStages) \/ GetPlayed(p) \/ SetPlayed(p) \/ ExpPlayed(p)
    \/ GetScore(p) \/ SetScore(p) \/ GetLastDate(p) \/ GetStreak(p)
    \/ SetStreak(p) \/ SetLastDate(p) \/ SetCompleted(p) \/ ExpCompleted(p)
    \/ RespScore(p) \/ RespStreak(p) \/ RespLast(p) \/ RespCompleted(p)

(***************************************************************************)
(* The two versions of /lock and /guess side by side.  twin holds two      *)
(* stores, one served by the richer routes and one by the legacy routes,   *)
(* which receive the same requests one at a time, with dayKey the UTC day  *)
(* of the clock and the same answers of the content source.                *)
(***************************************************************************)
NoTwin == [on |-> FALSE, rich |-> <<>>, legacy |-> <<>>, day |-> 0, n |-> 0,
           kind |-> "", richPoints |-> 0, legacyPoints |-> 0, correct |-> FALSE]

\* /lock run from its first line to its response: the store it leaves
lockRun(v, st, t, u, m) ==
    LET d == utcDateKey(t)
    IN  IF needsCommit("lock", readCommitted(st, u, m, d))
        THEN commitModeExpire(commitModeSet(st, u, m, d), u, m, d, t)
        ELSE st

\* /guess run from its first line to its response by version v: the store it leaves
\* and the fields of the response (b holds the community an uncached build would
\* choose, and is empty when that build would throw)
guessRun(v, st, t, u, m, text, rawStage, b) ==
    LET d == utcDateKey(t)
        s1 == lockRun(v, st, t, u, m)
        ck == cacheKey(d, m)
    IN  IF ~Has(s1, ck) /\ b = {}
        THEN [store |-> s1, failed |-> TRUE, correct |-> FALSE, stage |-> stageOf(rawStage),
              points |-> 0]
        ELSE LET s2 == IF Has(s1, ck) THEN s1
                       ELSE RedisExpire(RedisSet(s1, ck, CHOOSE a \in b : TRUE), ck, t)
                 correct == isCorrect(text, s2[ck].v)
                 stage == stageOf(rawStage)
                 alreadyCompleted == v = "rich" /\ readCompleted(s2, u, m, d)
                 alreadyAwarded == IsOne(s2, kPlayed(u, m, d))
                 award == awardsNow(alreadyCompleted, correct, alreadyAwarded)
                 s3 == RedisExpire(RedisSet(s2, kPlayed(u, m, d), "1"), kPlayed(u, m, d), t)
                 s4 == RedisSet(s3, kScore(u, m), NumberAt(s3, kScore(u, m)) + pointsFor(stage))
                 s5 == RedisSet(s4, kStreak(u, m),
                                newStreak(DayAt(s4, kLastDate(u, m)), utcDateKeyOffset(t, -1),
                                          NumberAt(s4, kStreak(u, m))))
                 s6 == IF award THEN RedisSet(s5, kLastDate(u, m), d) ELSE s2
                 s7 == IF v = "rich" /\ ~alreadyCompleted /\ finishesNow(correct, stage)
                       THEN setCompletedExpire(setCompletedSet(s6, u, m, d), u, m, d, t)
                       ELSE s6
             IN  [store |-> s7, failed |-> FALSE, correct |-> correct, stage |-> stage,
                  points |-> IF correct /\ award THEN pointsFor(stage) ELSE 0]

\* the same lock request served by both versions
TwinLock ==
    /\ twin.on /\ twin.n < MaxReqs
    /\ \E u \in UserInputs, rm \in RawModes :
          twin' = [twin EXCEPT
                      !.rich = lockRun("rich", twin.rich, twin.day, u, normalizeMode(rm)),
                      !.legacy = lockRun("legacy", twin.legacy, twin.day, u,
                                         normalizeMode(rm)),
                      !.n = @ + 1, !.kind = "lock", !.richPoints = 0, !.legacyPoints = 0,
                      !.correct = FALSE]
    /\ UNCHANGED <<buildVars, variant, dq, pq, now, store, pr, nReq, Ghosts>>

\* the same guess request served by both versions; an incorrect guess at stage 3 is
\* not among the requests sent
TwinGuess ==
    /\ twin.on /\ twin.n < MaxReqs
    /\ \E u \in UserInputs, rm \in RawModes, text \in GuessTexts, rs \in RawStages,
          b \in {{}} \cup {{c} : c \in Communities} :
          LET R == guessRun("rich", twin.rich, twin.day, u, normalizeMode(rm), text, rs, b)
              L == guessRun("legacy", twin.legacy, twin.day, u, normalizeMode(rm), text,
                            rs, b)
              finalLoss(o) == ~o.failed /\ ~o.correct /\ o.stage = 3
          IN  /\ ~finalLoss(R) /\ ~finalLoss(L)
              /\ twin' = [twin EXCEPT !.rich = R.store, !.legacy = L.store, !.n = @ + 1,
                                      !.kind = "guess", !.richPoints = R.points,
                                      !.legacyPoints = L.points, !.correct = R.correct]
    /\ UNCHANGED <<buildVars, variant, dq, pq, now, store, pr, nReq, Ghosts>>

\* midnight UTC for both stores
TwinTick ==
    /\ twin.on /\ twin.day < MaxDay
    /\ twin' = [twin EXCEPT !.day = @ + 1, !.rich = Sweep(twin.rich, twin.day + 1),
                            !.legacy = Sweep(twin.legacy, twin.day + 1)]
    /\ UNCHANGED <<buildVars, variant, dq, pq, now, store, pr, nReq, Ghosts>>

\* the store is empty; v is the generation of the routes that is deployed
InitOf(v) ==
    /\ variant = v
    /\ now = 0
    /\ store = <<>>
    /\ pr = [p \in Procs |-> Idle]
    /\ nReq = 0
    /\ credited = <<>>
    /\ nScored = <<>>
    /\ nCorrect = <<>>
    /\ doneAns = <<>>
    /\ expiredAny = FALSE
    /\ src = NoSource
    /\ bld = NoBuild
    /\ built = NothingBuilt
    /\ dq = NoDateQuery
    /\ pq = NoCall
    /\ twin = NoTwin

\* Concurrent service: each process serves one request on the same UTC day, and the
\* two requests interleave at every await ("p1" is the request that arrives first).
StartConc(p) ==
    /\ p = "p2" => InFlight("p1")
    /\ Start(p, Cardinality(Procs), RawDateKeysConc(now))

Init == InitOf("rich")

Next ==
    \/ \E p \in Procs : StartConc(p)
    \/ \E p \in Procs : Step(p, RawStagesConc)

Spec == Init /\ [][Next]_vars

\* Sequential service: one process serves up to MaxReqs requests, one at a time,
\* and midnight falls between requests.
NextSeq ==
    \/ Start("p1", MaxReqs, RawDateKeys(now))
    \/ Step("p1", RawStages)
    \/ Return("p1")
    \/ Tick

InitSeq == \E v \in {"rich", "legacy"} : InitOf(v)

SpecSeq == InitSeq /\ [][NextSeq]_vars

\* Requests of the richer routes served one at a time on one day, any of which may
\* be cut short by a failing store call and sent again.
NextRetry ==
    \/ Start("p1", MaxReqs, {[wf |-> FALSE, day |-> 0]})
    \/ Step("p1", RawStages)
    \/ Interrupt("p1")
    \/ Return("p1")

SpecRetry == Init /\ [][NextRetry]_vars

\* Requests of the richer routes served one at a time on one day, by several users
\* and for several modes.
NextIso ==
    \/ StartFrom("p1", MaxReqs, {[wf |-> FALSE, day |-> 0]}, IsoUsers, IsoRawModes)
    \/ Step("p1", RawStages)
    \/ Return("p1")

SpecIso == Init /\ [][NextIso]_vars

\* Uncached builds: up to MaxBuilds builds, for one date key, against one snapshot
\* of the content source, with either version of pickSubredditForMode.
InitBuild ==
    /\ variant \in {"rich", "legacy"}
    /\ now = 0
    /\ store = <<>>
    /\ pr = [p \in Procs |-> Idle]
    /\ nReq = 0
    /\ credited = <<>>
    /\ nScored = <<>>
    /\ nCorrect = <<>>
    /\ doneAns = <<>>
    /\ expiredAny = FALSE
    /\ src \in Snapshots
    /\ \E dk \in DateKeyTexts : bld = [NoBuild EXCEPT !.dateKey = dk]
    /\ built = NothingBuilt
    /\ dq = NoDateQuery
    /\ pq = NoCall
    /\ twin = NoTwin

NextBuild ==
    \/ \E mode \in Modes : BeginBuild(mode)
    \/ PickSubreddit
    \/ PickPost
    \/ PickComment
    \/ Lapse

SpecBuild == InitBuild /\ [][NextBuild]_vars

\* Calls of resolveDateKey: one call per behaviour, for every text a client sends and
\* every day of the clock.
InitDate ==
    /\ variant = "rich"
    /\ now = 0
    /\ store = <<>>
    /\ pr = [p \in Procs |-> Idle]
    /\ nReq = 0
    /\ credited = <<>>
    /\ nScored = <<>>
    /\ nCorrect = <<>>
    /\ doneAns = <<>>
    /\ expiredAny = FALSE
    /\ src = NoSource
    /\ bld = NoBuild
    /\ built = NothingBuilt
    /\ dq \in {[raw |-> r, day |-> t, out |-> <<>>] : r \in RawDateTexts, t \in ClockDays}
    /\ pq = NoCall
    /\ twin = NoTwin

NextDate == ResolveDate

SpecDate == InitDate /\ [][NextDate]_vars

\* Direct calls: one call of pickIndex or of the judgement of a guess.
InitCalls ==
    /\ variant = "rich"
    /\ now = 0
    /\ store = <<>>
    /\ pr = [p \in Procs |-> Idle]
    /\ nReq = 0
    /\ credited = <<>>
    /\ nScored = <<>>
    /\ nCorrect = <<>>
    /\ doneAns = <<>>
    /\ expiredAny = FALSE
    /\ src = NoSource
    /\ bld = NoBuild
    /\ built = NothingBuilt
    /\ dq = NoDateQuery
    /\ twin = NoTwin
    /\ pq \in {[fn |-> "pickIndex", done |-> FALSE, len |-> n, seed |-> s, out |-> 0] :
                   n \in PickLens, s \in PickSeeds}
              \cup {[fn |-> "judge", done |-> FALSE, text |-> x, answer |-> a,
                     out |-> FALSE] : x \in JudgeTexts, a \in JudgeAnswers}

NextCalls == CallPickIndex \/ CallJudge

SpecCalls == InitCalls /\ [][NextCalls]_vars

\* The two versions side by side, from two empty stores.
InitTwin ==
    /\ variant = "rich"
    /\ now = 0
    /\ store = <<>>
    /\ pr = [p \in Procs |-> Idle]
    /\ nReq = 0
    /\ credited = <<>>
    /\ nScored = <<>>
    /\ nCorrect = <<>>
    /\ doneAns = <<>>
    /\ expiredAny = FALSE
    /\ src = NoSource
    /\ bld = NoBuild
    /\ built = NothingBuilt
    /\ dq = NoDateQuery
    /\ pq = NoCall
    /\ twin = [NoTwin EXCEPT !.on = TRUE]

NextTwin == TwinLock \/ TwinGuess \/ TwinTick

SpecTwin == InitTwin /\ [][NextTwin]_vars

(***************************************************************************)
(* Vocabulary of the properties.                                           *)
(***************************************************************************)
\* every (user, mode, dayKey) the requests of the model can name
AllUMD ==
    {<<u, m, d>> : u \in UserInputs, m \in {normalizeMode(rm) : rm \in RawModes},
                   d \in (0 - 1)..(MaxDay + 1)}

Committed(k) == readCommitted(store, k[1], k[2], k[3])
Completed(k) == readCompleted(store, k[1], k[2], k[3])
Awarded(k) == IsOne(store, kPlayed(k[1], k[2], k[3]))

\* the stored durable record of (user, mode)
TotalScore(u, m) == NumberAt(store, kScore(u, m))
Streak(u, m) == NumberAt(store, kStreak(u, m))
LastPlayed(u, m) == DayAt(store, kLastDate(u, m))

\* the pcs of the award branch of /guess (from redis.set(playedKey) to redis.set(kLastDate))
AwardPcs ==
    {"setPlayed", "expPlayed", "getScore", "setScore", "getLastDate", "getStreak",
     "setStreak", "setLastDate"}

\* process p takes a step
StepBy(p) == pr'[p] # pr[p]

\* GuessResponse.pointsAwarded: correct ? pointsAwarded : 0
RespPoints(r) == IF r.correct THEN r.points ELSE 0

(***************************************************************************)
(* C1.  Requests served one at a time, no key expiring: for every (user,   *)
(* mode, dayKey) at most one guess request increases the stored            *)
(* totalScore, and a request that is in the award branch is the first      *)
(* guess judged correct for that triple.                                   *)
(***************************************************************************)
C1_SingleAward ==
    ~expiredAny =>
        /\ \A k \in DOMAIN nScored : nScored[k] <= 1
        /\ \A p \in Procs :
              pr[p].pc \in AwardPcs => At(nCorrect, KeyOf(pr[p]), 0) = 1

\* a second correct guess for the triple has been answered, and only one was scored
C1_Witness ==
    /\ ~expiredAny
    /\ pr["p1"].pc = "done" /\ pr["p1"].kind = "guess" /\ pr["p1"].correct
    /\ At(nCorrect, KeyOf(pr["p1"]), 0) = 2
    /\ At(nScored, KeyOf(pr["p1"]), 0) = 1
    /\ TotalScore(pr["p1"].user, pr["p1"].mode) = pr["p1"].score0

(***************************************************************************)
(* C2.  Once the completed flag of (user, mode, dayKey) is set, a guess or *)
(* giveUp request that arrives later returns the answer every guess or     *)
(* giveUp response has carried since the flag was set, and never enters    *)
(* the award branch (so it leaves totalScore and streak alone).            *)
(***************************************************************************)
C2_TerminalAbsorption ==
    \A p \in Procs :
        (pr[p].late /\ pr[p].kind \in {"guess", "giveup"}) =>
            /\ pr[p].pc \notin AwardPcs
            /\ pr[p].pc = "done" => At(doneAns, KeyOf(pr[p]), {}) = {pr[p].answer}

(***************************************************************************)
(* C3.  Concurrent guesses for one (user, mode, dayKey) never credit more  *)
(* than one stage award to the stored totalScore: the net amount the       *)
(* requests for the triple have added to it is 0 or one of 100, 60, 30.    *)
(***************************************************************************)
C3_NoDoubleAward ==
    \A k \in DOMAIN credited : credited[k] \in {0, 100, 60, 30}

(***************************************************************************)
(* C4.  The streak written by a scored win for dayKey D is the previous    *)
(* streak plus 1 if the stored lastPlayedDayKey is the day before D, and 1 *)
(* in every other case.                                                    *)
(***************************************************************************)
C4_StreakLaw ==
    \A p \in Procs :
        pr[p].pc = "setLastDate" =>
            Streak(pr[p].user, pr[p].mode) =
                IF pr[p].lastDate = {pr[p].dk - 1} THEN pr[p].prevStreak + 1 ELSE 1

(***************************************************************************)
(* C9.  In every reachable state, for every (user, mode, dayKey):          *)
(* pointsAwarded implies committed, and completed implies committed.       *)
(***************************************************************************)
C9_FlagsImplyCommitted ==
    \A k \in AllUMD :
        /\ Awarded(k) => Committed(k)
        /\ Completed(k) => Committed(k)

(***************************************************************************)
(* C5.  A guess that is scored increases the stored totalScore by 100 at   *)
(* stage 1, 60 at stage 2 and 30 at stage 3, the response's pointsAwarded  *)
(* is that increase, and an incorrect guess increases it by 0.             *)
(***************************************************************************)
C5_StageScoring ==
    \A p \in Procs :
        (pr[p].pc = "done" /\ pr[p].kind = "guess") =>
            LET r == pr[p]
                inc == TotalScore(r.user, r.mode) - r.score0
                table == CASE r.stage = 1 -> 100 [] r.stage = 2 -> 60 [] r.stage = 3 -> 30
            IN  /\ inc \in {0, table}
                /\ RespPoints(r) = inc
                /\ ~r.correct => inc = 0

\* a guess scored at stage 2 has been answered
C5_Witness ==
    /\ pr["p1"].pc = "done" /\ pr["p1"].kind = "guess" /\ pr["p1"].stage = 2
    /\ TotalScore(pr["p1"].user, pr["p1"].mode) - pr["p1"].score0 = 60
    /\ RespPoints(pr["p1"]) = 60

(***************************************************************************)
(* C6.  No step of a state request changes a key of the player state: the  *)
(* committed, completed and pointsAwarded flags, totalScore, streak and    *)
(* lastPlayedDayKey stay as they were (only the puzzle cache may change).  *)
(***************************************************************************)
PlayerPart(st) == [k \in {x \in DOMAIN st : x[1] # "puzzle"} |-> st[k]]

C6_StateReadOnly ==
    [][\A p \in Procs :
          (StepBy(p) /\ (pr[p].kind = "state" \/ pr'[p].kind = "state")) =>
              PlayerPart(store') = PlayerPart(store)]_vars

\* a second state request has been answered, it built the puzzle, the mode is still Fresh
C6_Witness ==
    /\ pr["p1"].pc = "done" /\ pr["p1"].kind = "state" /\ nReq = 2
    /\ Has(store, cacheKey(pr["p1"].dk, pr["p1"].mode))
    /\ ~Committed(KeyOf(pr["p1"])) /\ ~Completed(KeyOf(pr["p1"]))
    /\ PlayerPart(store) = <<>>

(***************************************************************************)
(* C7.  lock is idempotent: when it answers, the committed flag is set; a  *)
(* lock that finds the mode committed writes no key; and no step of a lock *)
(* changes any key but the committed flag of its own (user, mode, dayKey). *)
(***************************************************************************)
C7_LockIdempotent ==
    [][\A p \in Procs :
          (StepBy(p) /\ pr[p].kind = "lock") =>
              LET r == pr[p]
                  ck == kCommit(r.user, r.mode, r.dk)
              IN  /\ pr'[p].pc = "done" => readCommitted(store', r.user, r.mode, r.dk)
                  /\ (r.locked \/ (r.pc = "readCommitted"
                                      /\ readCommitted(store, r.user, r.mode, r.dk)))
                        => store' = store
                  /\ \A k \in (DOMAIN store \cup DOMAIN store') \ {ck} :
                        k \in DOMAIN store /\ k \in DOMAIN store' /\ store'[k] = store[k]]_vars

\* a lock issued on a committed mode has been answered
C7_Witness ==
    /\ pr["p1"].pc = "done" /\ pr["p1"].kind = "lock" /\ pr["p1"].locked
    /\ Committed(KeyOf(pr["p1"]))

(***************************************************************************)
(* C8.  Completed is absorbing: no step of any request clears a completed  *)
(* flag, nor the committed flag of a completed mode; only the expiry of    *)
(* the key (at midnight, when its 48 hours are over) removes it.           *)
(***************************************************************************)
C8_CompletedAbsorbing ==
    [][now' = now =>
          \A k \in AllUMD :
              Completed(k) =>
                  /\ readCompleted(store', k[1], k[2], k[3])
                  /\ Committed(k) => readCommitted(store', k[1], k[2], k[3])]_vars

\* a state request for a completed mode has been answered, after another request
C8_Witness ==
    /\ pr["p1"].pc = "done" /\ pr["p1"].kind = "state" /\ pr["p1"].late
    /\ pr["p1"].rCompleted /\ Completed(KeyOf(pr["p1"]))

(***************************************************************************)
(* C10.  A guess that finds the mode not completed sets the completed      *)
(* flag if and only if it is correct or it is incorrect at stage 3, and    *)
(* its response then reports completed = true.                             *)
(***************************************************************************)
C10_GuessCompletes ==
    \A p \in Procs :
        (pr[p].kind = "guess" /\ ~pr[p].alreadyCompleted) =>
            LET r == pr[p]
                ends == r.correct \/ (~r.correct /\ r.stage = 3)
            IN  /\ r.pc \in {"setCompleted", "expCompleted"} => ends
                /\ (r.pc \in {"respScore", "respStreak", "respCompleted", "done"} /\ ends)
                      => Completed(KeyOf(r))
                /\ (r.pc = "done" /\ ends) => r.rCompleted

\* an incorrect guess at stage 3 on a mode that was not completed has been answered
C10_Witness ==
    \E p \in Procs :
        /\ pr[p].pc = "done" /\ pr[p].kind = "guess" /\ ~pr[p].alreadyCompleted
        /\ ~pr[p].late /\ ~pr[p].correct /\ pr[p].stage = 3 /\ pr[p].rCompleted

(***************************************************************************)
(* C11.  An incorrect guess at stage 1 or 2 on a mode that is not          *)
(* completed leaves it Committed: when it answers, committed is set and    *)
(* completed is not, and none of its steps changes a key other than the    *)
(* committed flag and the puzzle cache (totalScore, streak,                *)
(* lastPlayedDayKey and pointsAwarded stay as they were).                  *)
(***************************************************************************)
C11_EarlyMissStaysCommitted ==
    /\ [](\A p \in Procs :
            (pr[p].pc = "done" /\ pr[p].kind = "guess" /\ ~pr[p].late
                /\ ~pr[p].correct /\ pr[p].stage \in {1, 2}) =>
                /\ Committed(KeyOf(pr[p]))
                /\ ~Completed(KeyOf(pr[p]))
                /\ TotalScore(pr[p].user, pr[p].mode) = pr[p].score0
                /\ RespPoints(pr[p]) = 0)
    /\ [][\A p \in Procs :
            (StepBy(p) /\ pr[p].kind = "guess" /\ ~pr'[p].correct
                /\ pr'[p].stage \in {0, 1, 2}) =>
                \A k \in DOMAIN store \cup DOMAIN store' :
                    (k[1] \notin {"commit", "puzzle"}) =>
                        k \in DOMAIN store /\ k \in DOMAIN store' /\ store'[k] = store[k]]_vars

\* an incorrect stage-1 guess on a Fresh mode has been answered
C11_Witness ==
    /\ pr["p1"].pc = "done" /\ pr["p1"].kind = "guess" /\ ~pr["p1"].late
    /\ ~pr["p1"].locked /\ ~pr["p1"].correct /\ pr["p1"].stage = 1
    /\ Committed(KeyOf(pr["p1"])) /\ ~Completed(KeyOf(pr["p1"]))
    /\ ~Awarded(KeyOf(pr["p1"]))

(***************************************************************************)
(* C12.  giveUp ends with committed and completed set, answers with the    *)
(* community of the stored puzzle, and none of its steps changes a key     *)
(* other than the two flags and the puzzle cache: no scoring.              *)
(***************************************************************************)
C12_GiveUpForcesCompleted ==
    /\ [](\A p \in Procs :
            (pr[p].kind = "giveup" /\ pr[p].pc \in {"done", "failed"}) =>
                /\ Committed(KeyOf(pr[p]))
                /\ Completed(KeyOf(pr[p]))
                /\ pr[p].pc = "done" =>
                      /\ cacheKey(pr[p].dk, pr[p].mode) \in DOMAIN store
                      /\ pr[p].answer = store[cacheKey(pr[p].dk, pr[p].mode)].v)
    /\ [][\A p \in Procs :
            (StepBy(p) /\ pr[p].kind = "giveup") =>
                \A k \in DOMAIN store \cup DOMAIN store' :
                    (k[1] \notin {"commit", "completed", "puzzle"}) =>
                        k \in DOMAIN store /\ k \in DOMAIN store' /\ store'[k] = store[k]]_vars

\* a giveUp on a Fresh mode has been answered, after a scored win on another day key
C12_Witness ==
    /\ pr["p1"].pc = "done" /\ pr["p1"].kind = "giveup" /\ ~pr["p1"].late
    /\ ~pr["p1"].locked /\ pr["p1"].answer \in Communities
    /\ Committed(KeyOf(pr["p1"])) /\ Completed(KeyOf(pr["p1"]))
    /\ ~Awarded(KeyOf(pr["p1"]))
    /\ TotalScore(pr["p1"].user, pr["p1"].mode) > 0

(***************************************************************************)
(* C13.  The stored totalScore of every (user, mode) never decreases: no   *)
(* step writes a value smaller than the one stored just before.            *)
(***************************************************************************)
C13_ScoreMonotone ==
    [][\A u \in UserInputs, m \in {normalizeMode(rm) : rm \in RawModes} :
          NumberAt(store', kScore(u, m)) >= NumberAt(store, kScore(u, m))]_vars

(***************************************************************************)
(* C14.  Every step that changes the stored totalScore, streak or          *)
(* lastPlayedDayKey of (user, mode) is a step of a guess request for that  *)
(* (user, mode) whose guess was judged correct.                            *)
(***************************************************************************)
DurableKeys(u, m) == {kScore(u, m), kStreak(u, m), kLastDate(u, m)}

C14_DurableOnlyByWin ==
    [][\A u \in UserInputs, m \in {normalizeMode(rm) : rm \in RawModes} :
          (\E k \in DurableKeys(u, m) :
                \/ (k \in DOMAIN store) # (k \in DOMAIN store')
                \/ k \in DOMAIN store /\ k \in DOMAIN store' /\ store'[k] # store[k])
          => \E p \in Procs :
                /\ StepBy(p) /\ pr[p].kind = "guess" /\ pr[p].correct
                /\ pr[p].user = u /\ pr[p].mode = m
                /\ pr[p].answer \in Communities]_vars

\* a winning guess has written the three keys while another request is in flight
C14_Witness ==
    /\ pr["p1"].kind = "guess" /\ pr["p1"].correct /\ pr["p1"].pc = "done"
    /\ InFlight("p2") /\ pr["p2"].kind # "guess"
    /\ Streak(pr["p1"].user, pr["p1"].mode) = 1
    /\ LastPlayed(pr["p1"].user, pr["p1"].mode) = {pr["p1"].dk}
    /\ TotalScore(pr["p1"].user, pr["p1"].mode) = 100

(***************************************************************************)
(* C15.  Cache idempotence, calls made one after the other: the content    *)
(* source is called only when the puzzle key is absent, a call that finds  *)
(* the key returns the stored puzzle, and a stored puzzle is never         *)
(* replaced by a different one while its key lives.                        *)
(***************************************************************************)
C15_CacheIdempotent ==
    [][/\ \A p \in Procs :
            StepBy(p) =>
                LET ck == cacheKey(pr[p].dk, pr[p].mode)
                IN  /\ pr[p].pc = "build" => ck \notin DOMAIN store
                    /\ (pr[p].pc = "cacheGet" /\ ck \in DOMAIN store) =>
                          /\ pr'[p].pc \notin {"build", "cacheSet", "cacheExp"}
                          /\ pr'[p].answer = store[ck].v
       /\ \A k \in DOMAIN store \cap DOMAIN store' :
            k[1] = "puzzle" => store'[k].v = store[k].v]_vars

\* a second request, a day after the build, has been answered from the cache
C15_Witness ==
    /\ pr["p1"].pc = "done" /\ pr["p1"].kind \in {"guess", "giveup"} /\ nReq = 2
    /\ now = 1
    /\ cacheKey(pr["p1"].dk, pr["p1"].mode) \in DOMAIN store
    /\ store[cacheKey(pr["p1"].dk, pr["p1"].mode)].exp = {TTL}
    /\ pr["p1"].answer = store[cacheKey(pr["p1"].dk, pr["p1"].mode)].v

(***************************************************************************)
(* Vocabulary of the properties of the build.                              *)
(***************************************************************************)
\* the metadata lookup of a community of the snapshot succeeded
HasInfo(sub) == sub \in Communities /\ src.info[sub] # Throws

\* the community has a known subscriber count
KnownCount(sub) == HasInfo(sub) /\ getSubscriberCount(src.info[sub]) > 0

\* the build in progress has chosen its community
Picked == bld.pc \in {"posts", "comments"}

\* the finished builds that produced a puzzle
Puzzles(mode) == {o \in built[mode] : "subreddit" \in DOMAIN o}

C17_TierMonotone ==
    \A e \in Puzzles("easy"), m \in Puzzles("medium") :
        (KnownCount(e.subreddit) /\ KnownCount(m.subreddit)) =>
            getSubscriberCount(src.info[e.subreddit])
                >= getSubscriberCount(src.info[m.subreddit])

(***************************************************************************)
(* C18.  For easy and medium, a community with an unknown subscriber count *)
(* is chosen only when no non-adult candidate of the listing has a known   *)
(* count at or above the threshold of the mode.                            *)
(***************************************************************************)
C18_UnknownNeverQualifies ==
    (Picked /\ bld.mode \in {"easy", "medium"} /\ bld.subreddit \in Communities
        /\ ~KnownCount(bld.subreddit)) =>
        ~\E i \in 1..Len(candidatesOf(src.listing)) :
            LET c == candidatesOf(src.listing)[i]
            IN  /\ HasInfo(c)
                /\ ~isNsfwSub(src.info[c])
                /\ getSubscriberCount(src.info[c]) > 0
                /\ getSubscriberCount(src.info[c]) >= minSubsForMode(bld.mode)

(***************************************************************************)
(* C19.  The community chosen by pickSubredditForMode is never one whose   *)
(* metadata flags it as adult, in any mode and on any path.                *)
(***************************************************************************)
C19_NeverAdult ==
    (Picked /\ HasInfo(bld.subreddit)) => ~isNsfwSub(src.info[bld.subreddit])

(***************************************************************************)
(* C20.  The comment of a puzzle is never empty, "[deleted]" or            *)
(* "[removed]"; and when some comment of the post passes the primary       *)
(* filter (25 characters or more, no mention of r/<answer>, no "this sub", *)
(* no bot signature), the chosen comment passes it too.                    *)
(***************************************************************************)
C20_CommentPool ==
    \A m \in Modes : \A o \in Puzzles(m) :
        LET primary(b) ==
                /\ b \notin {<<>>, <<"[", "d", "e", "l", "e", "t", "e", "d", "]">>,
                             <<"[", "r", "e", "m", "o", "v", "e", "d", "]">>}
                /\ Len(b) >= 25
                /\ ~Includes(ToLower(b), <<"r", "/">> \o ToLower(o.subreddit))
                /\ ~Includes(ToLower(b), <<"t", "h", "i", "s", " ", "s", "u", "b">>)
                /\ ~Includes(ToLower(b), <<"i", " ", "a", "m", " ", "a", " ", "b", "o", "t">>)
                /\ ~Includes(ToLower(b), <<"a", "u", "t", "o", "m", "o", "d">>)
            cs == src.comments[o.postId]
        IN  /\ o.commentBody \notin {<<>>, <<"[", "d", "e", "l", "e", "t", "e", "d", "]">>,
                                     <<"[", "r", "e", "m", "o", "v", "e", "d", "]">>}
            /\ (\E i \in 1..Len(cs) : cs[i].body # Absent /\ primary(Trim(cs[i].body)))
                  => primary(o.commentBody)

\* a puzzle whose post has a 24-character comment and one that passes the primary
\* filter: the passing one was chosen
C20_Witness ==
    \E m \in Modes : \E o \in Puzzles(m) :
        LET cs == src.comments[o.postId]
        IN  /\ Len(cs) = 2
            /\ \E i \in 1..2 : cs[i].body # Absent /\ Len(Trim(cs[i].body)) = 24
            /\ Len(o.commentBody) >= 25

(***************************************************************************)
(* C21.  Whatever dateKey values the client sends, the requests of one     *)
(* user for one mode issued during a single server UTC day (here: the      *)
(* first day of the clock) lead to at most one scored win.                 *)
(***************************************************************************)
C21_OncePerServerDay ==
    now = 0 =>
        \A u \in UserInputs, m \in {normalizeMode(rm) : rm \in RawModes} :
            /\ \A k \in DOMAIN nScored : nScored[k] <= 1
            /\ Cardinality({k \in DOMAIN nScored :
                                k[1] = u /\ k[2] = m /\ nScored[k] > 0}) <= 1

(***************************************************************************)
(* C22.  When the chosen community has no posts, or the chosen post has no *)
(* comment that is non-empty and not deleted/removed, the build ends there *)
(* with an error: it does not go back to an earlier step, it produces no   *)
(* puzzle for the caller, and it leaves the store (the puzzle cache)       *)
(* as it was.                                                              *)
(***************************************************************************)
C22_ExhaustedSourceFails ==
    [][LET noPosts == bld.pc = "posts" /\ Len(postsOf(bld.subreddit)) = 0
           cs == src.comments[bld.post.id]
           noComments ==
               /\ bld.pc = "comments"
               /\ ~src.commentsFail
               /\ \A i \in 1..Len(cs) :
                     \/ cs[i].body = Absent
                     \/ Trim(cs[i].body) \in {<<>>, <<"[", "d", "e", "l", "e", "t", "e", "d", "]">>,
                                              <<"[", "r", "e", "m", "o", "v", "e", "d", "]">>}
       IN  (noPosts \/ noComments) =>
               /\ bld'.pc = "idle"
               /\ bld'.n = bld.n
               /\ \E o \in built'[bld.mode] : "error" \in DOMAIN o
               /\ Puzzles(bld.mode)' = Puzzles(bld.mode)
               /\ store' = store]_vars

\* a build has failed on a post whose two comments are a placeholder and a blank, and
\* nothing is cached for its mode
C22_Witness ==
    /\ bld.pc = "idle" /\ bld.n >= 1
    /\ built[bld.mode] = {[error |-> "No usable comments"]}
    /\ Len(src.comments[bld.post.id]) = 2
    /\ ~Has(store, cacheKey(bld.dateKey, bld.mode))

(***************************************************************************)
(* C23.  Two concurrent correct guesses for one (user, mode, dayKey), on a *)
(* store with no previous win: once both are answered the stored streak is *)
(* the one a single winning guess would have written, namely 1.            *)
(***************************************************************************)
C23_StreakNotCorrupted ==
    \A p, q \in Procs :
        (/\ p # q
         /\ pr[p].pc = "done" /\ pr[q].pc = "done"
         /\ pr[p].kind = "guess" /\ pr[q].kind = "guess"
         /\ pr[p].correct /\ pr[q].correct
         /\ KeyOf(pr[p]) = KeyOf(pr[q])) =>
            Streak(pr[p].user, pr[p].mode) = 1

(***************************************************************************)
(* C24.  Two guess requests of one user and mode for two different         *)
(* accepted dayKeys never contend on a key of the player state: they are   *)
(* never both about to read or write the same key.                         *)
(***************************************************************************)
\* the key of the player state that the next await of request r reads or writes
KeyAt(r) ==
    CASE r.pc \in {"readCommitted", "setCommit", "expCommit"} -> kCommit(r.user, r.mode, r.dk)
      [] r.pc \in {"readCompleted", "setCompleted", "expCompleted", "respCompleted"} ->
            kCompleted(r.user, r.mode, r.dk)
      [] r.pc \in {"getPlayed", "setPlayed", "expPlayed"} -> kPlayed(r.user, r.mode, r.dk)
      [] r.pc \in {"getScore", "setScore", "respScore"} -> kScore(r.user, r.mode)
      [] r.pc \in {"getLastDate", "setLastDate", "respLast"} -> kLastDate(r.user, r.mode)
      [] r.pc \in {"getStreak", "setStreak", "respStreak"} -> kStreak(r.user, r.mode)
      [] OTHER -> <<>>

C24_DistinctDaysNoContention ==
    \A p, q \in Procs :
        (/\ p # q
         /\ pr[p].kind = "guess" /\ pr[q].kind = "guess"
         /\ pr[p].user = pr[q].user /\ pr[p].mode = pr[q].mode
         /\ pr[p].dk # pr[q].dk
         /\ KeyAt(pr[p]) # <<>>) =>
            KeyAt(pr[p]) # KeyAt(pr[q])

(***************************************************************************)
(* C25.  Calls of buildDailyPuzzle for one (dayKey, mode) that overlap:    *)
(* the puzzles returned to the callers are equal and equal to the cached   *)
(* one, and a cache entry never changes value while it lives.              *)
(***************************************************************************)
C25_OnePuzzlePerKey ==
    /\ [](\A p, q \in Procs :
            (/\ pr[p].pc = "done" /\ pr[q].pc = "done"
             /\ pr[p].answer # <<>> /\ pr[q].answer # <<>>
             /\ pr[p].dk = pr[q].dk /\ pr[p].mode = pr[q].mode) =>
                /\ pr[p].answer = pr[q].answer
                /\ Has(store, cacheKey(pr[p].dk, pr[p].mode)) =>
                      store[cacheKey(pr[p].dk, pr[p].mode)].v = pr[p].answer)
    /\ [][\A k \in DOMAIN store \cap DOMAIN store' :
            k[1] = "puzzle" => store'[k].v = store[k].v]_vars

(***************************************************************************)
(* C26.  A giveUp (or a final incorrect guess) running concurrently with a *)
(* correct guess for the same (user, mode, dayKey): no step taken while    *)
(* the completed flag of the triple is set increases the totalScore.       *)
(***************************************************************************)
C26_NoPointsAfterCompletion ==
    [][\A p \in Procs :
          (StepBy(p) /\ pr[p].kind = "guess" /\ Completed(KeyOf(pr[p]))) =>
              TotalScore(pr[p].user, pr[p].mode)' <= TotalScore(pr[p].user, pr[p].mode)]_vars

(***************************************************************************)
(* C29.  While resolveDateKey still accepts dayKey D (D is UTC yesterday,  *)
(* today or tomorrow), the pointsAwarded flag written by a scored win for  *)
(* (user, mode, D) is still present, and so no second win is scored for    *)
(* the triple.                                                             *)
(***************************************************************************)
C29_RetentionCoversWindow ==
    \A k \in AllUMD :
        (Rich /\ k[3] \in {utcDateKeyOffset(now, -1), utcDateKeyOffset(now, 0),
                          utcDateKeyOffset(now, 1)}
              /\ At(nScored, k, 0) >= 1) =>
            /\ Awarded(k)
            /\ nScored[k] = 1

(***************************************************************************)
(* C30.  A guess or giveUp request during which buildDailyPuzzle fails     *)
(* leaves the player state as it found it: the keys of the player state    *)
(* hold what they held when the request arrived.                           *)
(***************************************************************************)
C30_FailedBuildChangesNothing ==
    \A p \in Procs :
        (pr[p].pc = "failed" /\ pr[p].kind \in {"guess", "giveup"}) =>
            /\ Committed(KeyOf(pr[p])) = pr[p].locked
            /\ Completed(KeyOf(pr[p])) = pr[p].late
            /\ TotalScore(pr[p].user, pr[p].mode) = pr[p].score0

(***************************************************************************)
(* C28.  When at most one call of the content source fails during a build  *)
(* (a metadata fetch, a post listing or a comment listing), the build does *)
(* not end with the error of that call.                                    *)
(***************************************************************************)
\* the calls of the content source that fail in the snapshot
FailingCalls ==
    Cardinality({c \in Communities : src.info[c] = Throws})
        + (IF src.commentsFail THEN 1 ELSE 0)

C28_SingleFailureRecovered ==
    FailingCalls <= 1 =>
        \A m \in Modes : [error |-> "getComments failed"] \notin built[m]

(***************************************************************************)
(* C27.  resolveDateKey returns the client's dateKey (trimmed) exactly     *)
(* when it has the shape YYYY-MM-DD and is the key of UTC yesterday, today *)
(* or tomorrow; for every other input it returns the key of UTC today; so  *)
(* the result is always the key of a day within one day of UTC today.      *)
(***************************************************************************)
C27_ResolveDateKey ==
    dq.out # <<>> =>
        LET keyOf == <<<<"2", "0", "2", "3", "-", "1", "2", "-", "2", "9">>,
                       <<"2", "0", "2", "3", "-", "1", "2", "-", "3", "0">>,
                       <<"2", "0", "2", "3", "-", "1", "2", "-", "3", "1">>,
                       <<"2", "0", "2", "4", "-", "0", "1", "-", "0", "1">>,
                       <<"2", "0", "2", "4", "-", "0", "1", "-", "0", "2">>,
                       <<"2", "0", "2", "4", "-", "0", "1", "-", "0", "3">>>>
            today == keyOf[dq.day]
            window == {keyOf[dq.day - 1], today, keyOf[dq.day + 1]}
            sent == IF dq.raw = Absent THEN <<>> ELSE Trim(dq.raw)
        IN  /\ sent \in window => dq.out = sent
            /\ sent \notin window => dq.out = today
            /\ dq.out \in window

\* the client's key of UTC tomorrow, sent with spaces around it on the last day of a
\* year, has been accepted
C27_Witness ==
    /\ dq.raw = <<" ", "2", "0", "2", "4", "-", "0", "1", "-", "0", "1", " ">>
    /\ Civil[dq.day] = [year |-> 2023, month |-> 11, date |-> 31]
    /\ dq.out = <<"2", "0", "2", "4", "-", "0", "1", "-", "0", "1">>

(***************************************************************************)
(* C31.  Requests served one at a time: the response of every guess        *)
(* request agrees with the store as the request leaves it.  pointsAwarded  *)
(* is the amount by which the request raised the stored totalScore (0 when *)
(* it did not raise it), and the totalScore, streak and, where the         *)
(* response has one, completedToday fields are the stored values.          *)
(***************************************************************************)
C31_ResponseMatchesStore ==
    \A p \in Procs :
        (pr[p].pc = "done" /\ pr[p].kind = "guess") =>
            LET r == pr[p]
                raised == TotalScore(r.user, r.mode) - r.score0
            IN  /\ raised >= 0
                /\ RespPoints(r) = raised
                /\ r.rTotal = TotalScore(r.user, r.mode)
                /\ r.rStreak = Streak(r.user, r.mode)
                /\ Rich => (r.rCompleted <=> Completed(KeyOf(r)))

\* a second win of the player has answered: its response carries the sum of both
\* awards, which is what the store holds
C31_Witness ==
    /\ pr["p1"].pc = "done" /\ pr["p1"].kind = "guess"
    /\ pr["p1"].score0 > 0 /\ RespPoints(pr["p1"]) > 0
    /\ pr["p1"].rTotal = pr["p1"].score0 + RespPoints(pr["p1"])
    /\ pr["p1"].rTotal = TotalScore(pr["p1"].user, pr["p1"].mode)
    /\ pr["p1"].rStreak = Streak(pr["p1"].user, pr["p1"].mode)

(***************************************************************************)
(* C32.  Richer routes, no request in flight: for every (user, mode,       *)
(* dayKey) whose pointsAwarded flag is set the completed flag is set too.  *)
(* The win that sets the first flag goes on to setCompleted within the     *)
(* same request, and the completed flag lives at least as long.            *)
(***************************************************************************)
C32_AwardedImpliesCompleted ==
    (Rich /\ \A p \in Procs : ~InFlight(p)) =>
        \A k \in AllUMD : Awarded(k) => Completed(k)

\* a day after a win was answered both flags of its dayKey are still set
C32_Witness ==
    /\ Rich /\ \A p \in Procs : ~InFlight(p)
    /\ now >= 1
    /\ \E k \in AllUMD : Awarded(k) /\ Completed(k) /\ At(nScored, k, 0) = 1

(***************************************************************************)
(* C33.  The stored lastPlayedDayKey of a (user, mode) never moves         *)
(* backwards: every write that replaces a stored date stores the same or   *)
(* a later calendar date.                                                  *)
(***************************************************************************)
C33_LastPlayedMonotone ==
    [][\A k \in AllUMD :
         \A a \in LastPlayed(k[1], k[2]) :
             \A b \in DayAt(store', kLastDate(k[1], k[2])) : b >= a]_vars

(***************************************************************************)
(* C34.  Community selection never dead-ends: when the global listing has  *)
(* at least one post that carries a community name, pickSubredditForMode   *)
(* returns, for every dayKey and mode, a community named by some post of   *)
(* the listing, whichever metadata lookups fail and whatever the           *)
(* candidates are flagged.                                                 *)
(***************************************************************************)
C34_SelectionNeverDeadEnds ==
    LET named == {i \in 1..Len(src.listing) :
                     \/ src.listing[i].subredditName \notin {Absent, <<>>}
                     \/ src.listing[i].subreddit \notin {Absent, <<>>}}
        listed == {src.listing[i].subredditName : i \in named}
                      \cup {src.listing[i].subreddit : i \in named}
    IN  (Picked /\ named # {}) =>
            /\ bld.subreddit \in listed \ {Absent, <<>>}
            /\ bld.subreddit # AllName

\* a community was returned although every lookup failed or every candidate is an
\* adult community
C34_Witness ==
    /\ Picked /\ bld.subreddit \in Communities
    /\ \E i \in 1..Len(src.listing) : src.listing[i].subredditName = bld.subreddit
                                          \/ src.listing[i].subreddit = bld.subreddit
    /\ \/ \A c \in Communities : src.info[c] = Throws
       \/ \A c \in Communities : HasInfo(c) /\ isNsfwSub(src.info[c])

(***************************************************************************)
(* C38.  For every length of 1 or more and every 32-bit seed, pickIndex    *)
(* returns an integer index i with 0 <= i < length.  The index is the      *)
(* magnitude of one xorshift round (x ^= x << 13, x ^= x >> 17,            *)
(* x ^= x << 5 on 32-bit signed values) modulo the length, and seed 0 is   *)
(* replaced by 123456789 before the round.  The magnitudes below are the   *)
(* values of the round worked out by hand for the seeds of the model.      *)
(***************************************************************************)
C38_PickIndexInRange ==
    (pq.fn = "pickIndex" /\ pq.done) =>
        LET magnitude ==
                CASE pq.seed = <<0, 0>> -> 1579999415
                  [] pq.seed = <<1883, 52501>> -> 1579999415
                  [] pq.seed = <<0, 1>> -> 270369
                  [] pq.seed = <<65535, 65535>> -> 253983
                  [] pq.seed = <<32768, 0>> -> 2146975744
                  [] pq.seed = <<32767, 65535>> -> 2147213281
                  [] pq.seed = <<64512, 8191>> -> 0
                  [] pq.seed = <<54892, 48359>> -> 2147483647
        IN  /\ pq.out \in 0..(pq.len - 1)
            /\ pq.out = magnitude % pq.len

\* seed 0 and a length of 150: the round of 123456789 ends in -1579999415, and
\* 1579999415 % 150 = 65
C38_Witness ==
    /\ pq.fn = "pickIndex" /\ pq.done
    /\ pq.seed = <<0, 0>> /\ pq.len = 150 /\ pq.out = 65

(***************************************************************************)
(* C39.  A guess is judged correct exactly when the text left after        *)
(* trimming it, removing one leading "r/" or "/r/" in any letter case and  *)
(* deleting every character outside [A-Za-z0-9_] equals the community name *)
(* of the puzzle, letter case ignored.  The pairs below are the (guess,    *)
(* name) pairs of the model for which that rule says yes.                  *)
(***************************************************************************)
C39_GuessJudgement ==
    (pq.fn = "judge" /\ pq.done) =>
        LET matches ==
                {<<<<"r", "/", "A", "b">>, <<"A", "b">>>>,
                 <<<<" ", "/", "R", "/", "a", "B", " ">>, <<"A", "b">>>>,
                 <<<<"A", "b">>, <<"A", "b">>>>,
                 <<<<"r", "/", "r", "/", "A", "b">>, <<"r", "A", "b">>>>,
                 <<<<"A", " ", "b", "!">>, <<"A", "b">>>>,
                 <<<<"a", "_", "b">>, <<"a", "_", "b">>>>,
                 <<<<"/", "r", "/", " ", "a", "b">>, <<"A", "b">>>>,
                 <<<<"r", " ", "/", "A", "b">>, <<"r", "A", "b">>>>,
                 <<<<"/", "/", "r", "/", "A", "b">>, <<"r", "A", "b">>>>,
                 <<<<"R", "/", "A", "B", "9">>, <<"A", "B", "9">>>>,
                 <<<<"r", "/", "r", "A", "b">>, <<"r", "A", "b">>>>,
                 <<<<"r", "A", "b">>, <<"r", "A", "b">>>>,
                 <<<<"a", "-", "b">>, <<"A", "b">>>>,
                 <<<<" ", "r", "/", "a", "_", "b">>, <<"a", "_", "b">>>>,
                 <<<<"/", "r", "A", "b">>, <<"r", "A", "b">>>>,
                 <<<<"A", "B", " ", "9">>, <<"A", "B", "9">>>>}
        IN  pq.out <=> (<<pq.text, pq.answer>> \in matches)

\* " /R/aB " is judged correct for the community Ab
C39_Witness ==
    /\ pq.fn = "judge" /\ pq.done /\ pq.out
    /\ pq.text = <<" ", "/", "R", "/", "a", "B", " ">>
    /\ pq.answer = <<"A", "b">>

(***************************************************************************)
(* C35.  The richer /lock and /guess refine the legacy ones: with dayKey   *)
(* the UTC day and over every sequence of lock and guess requests with no  *)
(* giveUp and no incorrect guess at stage 3, after every request both      *)
(* versions hold the same totalScore, streak, lastPlayedDayKey, committed  *)
(* flags and pointsAwarded flags, and they answered the request with the   *)
(* same pointsAwarded.                                                     *)
(***************************************************************************)
C35_RichRefinesLegacy ==
    LET shared == {"score", "streak", "lastDate", "commit", "played"}
        part(st) == [k \in {x \in DOMAIN st : x[1] \in shared} |-> st[k]]
    IN  twin.on =>
            /\ part(twin.rich) = part(twin.legacy)
            /\ twin.richPoints = twin.legacyPoints

\* the second of two correct guesses of one day: both versions refuse the award, the
\* richer one because the mode is completed, the legacy one by the pointsAwarded flag
C35_Witness ==
    /\ twin.on /\ twin.n = 2 /\ twin.kind = "guess" /\ twin.correct
    /\ twin.richPoints = 0 /\ twin.legacyPoints = 0
    /\ \E k \in DOMAIN twin.rich : k[1] = "completed"
    /\ \E k \in DOMAIN twin.legacy : k[1] = "score" /\ twin.legacy[k].v > 0
    /\ \A k \in DOMAIN twin.legacy : k[1] # "completed"

(***************************************************************************)
(* C36.  The award of a win is atomic with respect to a failing request:   *)
(* when a correct guess is cut short at a store call and the same guess is *)
(* sent again, the points of the win have been added to totalScore exactly *)
(* once and the streak has been written; the pointsAwarded flag is never   *)
(* left set without the score credited.                                    *)
(***************************************************************************)
C36_AwardAtomic ==
    /\ \A p \in Procs :
          (pr[p].pc = "done" /\ pr[p].kind = "guess" /\ pr[p].correct /\ ~pr[p].late) =>
              /\ At(nScored, KeyOf(pr[p]), 0) = 1
              /\ Streak(pr[p].user, pr[p].mode) >= 1
              /\ LastPlayed(pr[p].user, pr[p].mode) = {pr[p].dk}
    /\ (\A p \in Procs : ~InFlight(p)) =>
          \A k \in AllUMD : Awarded(k) => At(nScored, k, 0) >= 1

(***************************************************************************)
(* C37.  Player state is isolated per user and per mode: no step of a      *)
(* request made by user u for mode m changes a committed, completed or     *)
(* pointsAwarded flag, a totalScore, a streak or a lastPlayedDayKey of     *)
(* another user, or of another mode of u.  A user is a userId; visitors    *)
(* who are not logged in are all the one user "anon".                      *)
(***************************************************************************)
C37_Isolation ==
    [][\A p \in Procs :
         StepBy(p) =>
             \A u \in {userIdOf(x) : x \in IsoUsers}, m \in Modes :
                 <<u, m>> # <<pr[p].user, pr[p].mode>> =>
                     /\ NumberAt(store', kScore(u, m)) = NumberAt(store, kScore(u, m))
                     /\ NumberAt(store', kStreak(u, m)) = NumberAt(store, kStreak(u, m))
                     /\ DayAt(store', kLastDate(u, m)) = DayAt(store, kLastDate(u, m))
                     /\ \A d \in (0 - 1)..(MaxDay + 1) :
                           /\ readCommitted(store', u, m, d) = readCommitted(store, u, m, d)
                           /\ readCompleted(store', u, m, d) = readCompleted(store, u, m, d)
                           /\ IsOne(store', kPlayed(u, m, d)) = IsOne(store, kPlayed(u, m, d))
                     /\ \A k \in DOMAIN store \cup DOMAIN store' :
                           (k[1] # "puzzle" /\ k[2] = u /\ k[3] = m) =>
                               /\ k \in DOMAIN store /\ k \in DOMAIN store'
                               /\ store'[k] = store[k]]_vars

\* a visitor who is not logged in has won in easy mode while user t2_u1 holds a score
\* in easy mode too: the two scores are apart
C37_Witness ==
    /\ pr["p1"].pc = "done" /\ pr["p1"].kind = "guess"
    /\ pr["p1"].user = "anon" /\ pr["p1"].mode = "easy" /\ RespPoints(pr["p1"]) = 100
    /\ TotalScore("anon", "easy") = 100
    /\ TotalScore("t2_u1", "easy") = 30
    /\ Completed(<<"t2_u1", "easy", 0>>) /\ Completed(<<"anon", "easy", 0>>)

====
